---- MODULE Spec2Model ----
(***************************************************************************)
(* moneyGuru core: the Undoer/Action history (core/model/undo.py), the     *)
(* per-account EntryList (core/model/entry.py), the budget spawns          *)
(* (core/model/budget.py) and the Document commands that drive them        *)
(* (core/document.py).                                                     *)
(*                                                                         *)
(* Dates are small integers (day numbers); amounts are integers of one     *)
(* currency; accounts, groups, schedules and budgets are named by strings  *)
(* and small integers.                                                     *)
(***************************************************************************)
EXTENDS Integers, Sequences, FiniteSets, TLC

\* ------------------------------------------------------------------ bounds
\* Last day number of the modelled calendar.
MaxDate == 4
\* How many Actions a behaviour may record (the history is unbounded in the code).
MaxRecorded == 3
\* How many entries the stand-alone entry list may hold.
MaxEntries == 2

\* ------------------------------------------------------- program constants
\* Python's None for a date.
NoDate == 0
\* The undo cursor after construction and after every record().
LastIndex == -1
\* datetime.date.today(), the day BudgetList starts its periods at.
Today == 1
\* Length in days of BudgetList's period (RepeatType.Monthly, repeat_every 1).
MonthDays == 2

None == "None"
Dates == 1..MaxDate
AccountNames == {"New account", "Food"}
Amounts == {10, 20}

\* ----------------------------------------------------------------- helpers
Range(s) == {s[i] : i \in DOMAIN s}

RECURSIVE SeqSum(_)
SeqSum(s) == IF s = <<>> THEN 0 ELSE Head(s) + SeqSum(Tail(s))

SetMin(S) == CHOOSE x \in S : \A y \in S : x <= y
SetMax(S) == CHOOSE x \in S : \A y \in S : x >= y

\* Lexicographic order on tuples of integers of the same length (Python tuples).
RECURSIVE TupleLess(_, _)
TupleLess(a, b) ==
    IF a = <<>> THEN FALSE
    ELSE IF Head(a) # Head(b) THEN Head(a) < Head(b)
         ELSE TupleLess(Tail(a), Tail(b))

\* bisect.bisect_left / bisect.bisect_right on a sorted sequence, as 0-based indexes.
bisect_left(s, x) == Cardinality({i \in DOMAIN s : s[i] < x})
bisect_right(s, x) == Cardinality({i \in DOMAIN s : s[i] <= x})

\* A Python dict as a function whose domain is the key set.
EmptyDict == [k \in {} |-> 0]
DictDel(d, keys) == [k \in (DOMAIN d) \ keys |-> d[k]]
DictSet(d, k, v) == [x \in (DOMAIN d) \cup {k} |-> IF x = k THEN v ELSE d[x]]

\* ----------------------------------------------------------------- entries
\* An optional Entry is a sequence: empty for None, else the one entry.
NoEntry == <<>>

\* core/model/entry.py, EntryList.__init__
NewEntryList ==
    [_entries |-> <<>>, _date2entries |-> EmptyDict, _sorted_entry_dates |-> <<>>,
     _daterange2cashflow |-> EmptyDict, _last_reconciled |-> NoEntry]

\* Entry.reconciliation_key: entries without a reconciliation date sort first.
reconciliation_key(e) == <<e.reconciliation_date, e.date, e.position, e.index>>

\* EntryList.add_entry
add_entry(el, entry) ==
    LET e == [entry EXCEPT !.index = Len(el._entries)]
        date == e.date
        d2e == IF date \in DOMAIN el._date2entries
               THEN [el._date2entries EXCEPT ![date] = Append(@, e)]
               ELSE DictSet(el._date2entries, date, <<e>>)
        sorted == el._sorted_entry_dates
    IN [el EXCEPT
          !._entries = Append(@, e),
          !._date2entries = d2e,
          !._sorted_entry_dates =
              IF sorted = <<>> \/ sorted[Len(sorted)] < date THEN Append(sorted, date) ELSE sorted,
          !._last_reconciled =
              IF el._last_reconciled = NoEntry
                 \/ ~TupleLess(reconciliation_key(e), reconciliation_key(el._last_reconciled[1]))
              THEN <<e>> ELSE el._last_reconciled]

\* max(self._entries, key=reconciliation date alone): the first entry with the
\* latest reconciliation date.
MaxByReconciliationDate(entries) ==
    LET best == CHOOSE i \in DOMAIN entries :
                  /\ \A j \in DOMAIN entries :
                        entries[j].reconciliation_date <= entries[i].reconciliation_date
                  /\ \A j \in 1..(i - 1) :
                        entries[j].reconciliation_date < entries[i].reconciliation_date
    IN entries[best]

\* max(self._entries, key=reconciliation_key): the first entry with the largest key.
MaxByReconciliationKey(entries) ==
    LET best == CHOOSE i \in DOMAIN entries :
                  /\ \A j \in DOMAIN entries :
                        ~TupleLess(reconciliation_key(entries[i]), reconciliation_key(entries[j]))
                  /\ \A j \in 1..(i - 1) :
                        TupleLess(reconciliation_key(entries[j]), reconciliation_key(entries[i]))
    IN entries[best]

\* EntryList.clear keeping the entries of from_date itself (e.date <= from_date).
KeptEntriesInclusive(entries, from_date) ==
    IF from_date = NoDate THEN <<>>
    ELSE LET stop == {i \in DOMAIN entries : ~(entries[i].date <= from_date)}
         IN IF stop = {} THEN entries ELSE SubSeq(entries, 1, SetMin(stop) - 1)

\* EntryList.clear keeping every entry when no from_date is given.
KeptEntriesOfNone(entries, from_date) ==
    LET stop == {i \in DOMAIN entries : ~(entries[i].date < from_date)}
    IN IF from_date = NoDate \/ stop = {} THEN entries ELSE SubSeq(entries, 1, SetMin(stop) - 1)

\* The entries EntryList.clear keeps.
KeptEntries(entries, from_date) ==
    IF from_date = NoDate THEN <<>>
    ELSE LET \* itertools.takewhile(lambda e: e.date < from_date, ...)
             stop == {i \in DOMAIN entries : ~(entries[i].date < from_date)}
         IN IF stop = {} THEN entries ELSE SubSeq(entries, 1, SetMin(stop) - 1)

\* EntryList.clear emptying the list whatever from_date is.
clear_everything(el, from_date) == NewEntryList

\* EntryList.clear
clear(el, from_date) ==
    LET kept == KeptEntries(el._entries, from_date)
        index == bisect_left(el._sorted_entry_dates, from_date)
        gone == {el._sorted_entry_dates[i] : i \in (index + 1)..Len(el._sorted_entry_dates)}
        stale == {k \in DOMAIN el._daterange2cashflow : k[2] >= from_date}
    IN IF kept # <<>>
       THEN [_entries |-> kept,
             _date2entries |-> DictDel(el._date2entries, gone),
             _sorted_entry_dates |-> SubSeq(el._sorted_entry_dates, 1, index),
             _daterange2cashflow |-> DictDel(el._daterange2cashflow, stale),
             _last_reconciled |-> <<MaxByReconciliationKey(kept)>>]
       ELSE NewEntryList

\* EntryList.last_entry finding no entry whatever the list holds.
last_entry_of_nothing(el, date) == NoEntry

\* EntryList.last_entry
last_entry(el, date) ==
    IF el._entries = <<>> THEN NoEntry
    ELSE IF date = NoDate THEN <<el._entries[Len(el._entries)]>>
    ELSE IF date \in DOMAIN el._date2entries
         THEN <<el._date2entries[date][Len(el._date2entries[date])]>>
         ELSE LET index == bisect_right(el._sorted_entry_dates, date) - 1
              IN IF index < 0 THEN NoEntry
                 ELSE LET d == el._sorted_entry_dates[index + 1]
                      IN <<el._date2entries[d][Len(el._date2entries[d])]>>

\* EntryList._balance with balance_attr 'balance' and 'balance_with_budget'
balance(el, date) ==
    LET entry == last_entry(el, date) IN IF entry = NoEntry THEN 0 ELSE entry[1].balance

balance_with_budget(el, date) ==
    LET entry == last_entry(el, date) IN IF entry = NoEntry THEN 0 ELSE entry[1].balance_with_budget

\* EntryList.balance_of_reconciled
balance_of_reconciled(el) ==
    IF el._last_reconciled = NoEntry THEN 0 ELSE el._last_reconciled[1].reconciled_balance

\* EntryList._cash_flow over the date range <<start, end>>
_cash_flow(el, date_range) ==
    LET InRange(e) == date_range[1] <= e.date /\ e.date <= date_range[2] /\ ~e.is_budget
        hits == {d \in DOMAIN el._date2entries : date_range[1] <= d /\ d <= date_range[2]}
        Amount(d) == SeqSum([i \in DOMAIN el._date2entries[d] |->
                        IF InRange(el._date2entries[d][i]) THEN el._date2entries[d][i].amount ELSE 0])
        RECURSIVE Total(_)
        Total(ds) == IF ds = {} THEN 0
                     ELSE LET d == CHOOSE x \in ds : TRUE IN Amount(d) + Total(ds \ {d})
    IN Total(hits)

\* EntryList.cash_flow: the list after the call (the cache filled in)
cash_flow(el, date_range) ==
    IF date_range \in DOMAIN el._daterange2cashflow THEN el
    ELSE [el EXCEPT !._daterange2cashflow = DictSet(@, date_range, _cash_flow(el, date_range))]

\* ------------------------------------------------------------ transactions
\* An argument left at NOEDIT is the empty sequence; a given value v is <<v>>.
NOEDIT == <<>>

\* Split(account, amount)
Split(account, amount) ==
    [account |-> account, amount |-> amount, reconciliation_date |-> NoDate]

\* Transaction(date): a real transaction (TYPE 1) without splits. ref names the
\* schedule or budget a spawn comes from, recurrence_date its schedule slot; key
\* stands for the identity of the Python object: <<txntype, number, recurrence_date>>.
Transaction(date) ==
    [key |-> <<1, 0, NoDate>>, date |-> date, position |-> 0, splits |-> <<>>,
     txntype |-> 1, recurrence_date |-> NoDate, ref |-> 0]

\* Index of the first split satisfying a sign test, 0 when there is none.
FirstDebit(splits) ==
    LET hits == {i \in DOMAIN splits : splits[i].amount > 0}
    IN IF hits = {} THEN 0 ELSE SetMin(hits)
FirstCredit(splits) ==
    LET hits == {i \in DOMAIN splits : splits[i].amount < 0}
    IN IF hits = {} THEN 0 ELSE SetMin(hits)

\* Transaction.amount (getter): the sum of the debits
amount(t) ==
    SeqSum([i \in DOMAIN t.splits |-> IF t.splits[i].amount > 0 THEN t.splits[i].amount ELSE 0])

\* Transaction.can_set_amount (one currency: never a multi-currency transaction)
can_set_amount(t) == Len(t.splits) <= 2

\* Transaction.amount (setter)
set_amount(t, value) ==
    LET Account(i) == IF i # 0 THEN t.splits[i].account ELSE None
    IN IF value = amount(t) THEN t
       ELSE [t EXCEPT !.splits = <<Split(Account(FirstDebit(t.splits)), value),
                                   Split(Account(FirstCredit(t.splits)), -value)>>]

\* Transaction.splitted_splits, as two sets of split indexes <<froms, tos>>
splitted_splits(t) ==
    LET null_amounts == {i \in DOMAIN t.splits : t.splits[i].amount = 0}
        froms == {i \in DOMAIN t.splits : t.splits[i].amount < 0}
        tos == {i \in DOMAIN t.splits : t.splits[i].amount > 0}
    IN IF tos = {} /\ null_amounts # {}
       THEN <<froms \cup (null_amounts \ {SetMax(null_amounts)}), {SetMax(null_amounts)}>>
       ELSE <<froms \cup null_amounts, tos>>

\* Transaction.change(date, from_, to, amount): each argument NOEDIT or <<value>>
change(t, date, from_, to, amt) ==
    LET Dated(x) ==
            IF date = NOEDIT THEN x
            ELSE [x EXCEPT
                   !.date = date[1],
                   !.splits = [i \in DOMAIN x.splits |->
                       [x.splits[i] EXCEPT !.reconciliation_date =
                           IF date[1] > Today THEN NoDate
                           ELSE IF @ = x.date THEN date[1] ELSE @]]]
        Amounted(x) ==
            IF amt # NOEDIT /\ can_set_amount(x)
            THEN set_amount(x, IF amt[1] < 0 THEN -amt[1] ELSE amt[1]) ELSE x
        Assign(x, side, account) ==
            IF account # NOEDIT /\ Cardinality(side) = 1
            THEN [x EXCEPT !.splits[SetMin(side)].account = account[1]] ELSE x
        From(x) == Assign(x, splitted_splits(x)[1], from_)
        To(x) == Assign(x, splitted_splits(x)[2], to)
        Reconciled(x) ==
            [x EXCEPT !.splits = [i \in DOMAIN x.splits |->
                [x.splits[i] EXCEPT !.reconciliation_date =
                    IF @ # NoDate /\ @ < x.date THEN x.date ELSE @]]]
    IN Reconciled(To(From(Amounted(Dated(t)))))

\* Transaction.affected_accounts
affected_accounts(t) == {t.splits[i].account : i \in DOMAIN t.splits} \ {None}

\* Transaction.amount_for_account
amount_for_account(t, account) ==
    SeqSum([i \in DOMAIN t.splits |->
              IF t.splits[i].account = account THEN t.splits[i].amount ELSE 0])

\* Transaction.is_null
is_null(t) == \A i \in DOMAIN t.splits : t.splits[i].amount = 0

\* ------------------------------------------------------- dates and spawns
RepeatTypes == {"daily", "monthly"}
RepeatDays(repeat_type) == IF repeat_type = "daily" THEN 1 ELSE MonthDays

\* inc_date(date, repeat_type, count)
inc_date(date, repeat_type, count) == date + count * RepeatDays(repeat_type)

\* DateCounter(base_date, repeat_type, repeat_every, end): the dates it yields, in
\* order; it stops strictly before end.
DateCounter(base_date, repeat_type, repeat_every, end) ==
    LET step == repeat_every * RepeatDays(repeat_type)
        n == IF end <= base_date \/ step <= 0 THEN 0 ELSE ((end - base_date - 1) \div step) + 1
    IN [k \in 1..n |-> base_date + (k - 1) * step]

\* Spawn(recurrence, ref, recurrence_date, date, txntype): a copy of ref for one slot
Spawn(recurrence, ref, recurrence_date, date, txntype) ==
    [ref EXCEPT !.key = <<txntype, recurrence, recurrence_date>>, !.date = date,
                !.txntype = txntype, !.recurrence_date = recurrence_date,
                !.ref = recurrence]

\* Account.is_debit_account
is_debit_account(account) == account.type \in {"asset", "expense"}

RECURSIVE SumForAccount(_, _)
SumForAccount(txns, account) ==
    IF txns = {} THEN 0
    ELSE LET t == CHOOSE x \in txns : TRUE
         IN amount_for_account(t, account) + SumForAccount(txns \ {t}, account)

Abs(x) == IF x < 0 THEN -x ELSE x

\* Budget.get_spawns, the loop over the spawns, taking the transactions off
\* the budget even when they exceed it.
RECURSIVE ConsumeSpawns_past_the_budget(_, _, _, _)
ConsumeSpawns_past_the_budget(spawns, account, budget_amount, relevant_transactions) ==
    LET InPeriod(spawn) == {t \in relevant_transactions :
                               spawn.recurrence_date <= t.date /\ t.date <= spawn.date}
        Changed(spawn, txns_amount) ==
            change(spawn, NOEDIT, <<account>>, <<None>>, <<budget_amount - txns_amount>>)
        Consumed(spawn, wheat) ==
            [spawn |-> Changed(spawn, SumForAccount(wheat, account)),
             wheat |-> {t.key : t \in wheat},
             shaft |-> relevant_transactions \ wheat]
        Joined(first, rest) ==
            [spawns |-> <<first.spawn>> \o rest.spawns,
             consumedtxns |-> first.wheat \cup rest.consumedtxns]
        Step(first) ==
            Joined(first, ConsumeSpawns_past_the_budget(Tail(spawns), account, budget_amount,
                                                        first.shaft))
    IN IF spawns = <<>> THEN [spawns |-> <<>>, consumedtxns |-> {}]
       ELSE Step(Consumed(Head(spawns), InPeriod(Head(spawns))))

\* Budget.get_spawns, the loop over the spawns: each consumes the relevant
\* transactions of its period.
RECURSIVE ConsumeSpawns(_, _, _, _)
ConsumeSpawns(spawns, account, budget_amount, relevant_transactions) ==
    LET InPeriod(spawn) == {t \in relevant_transactions :
                               spawn.recurrence_date <= t.date /\ t.date <= spawn.date}
        Changed(spawn, txns_amount) ==
            IF Abs(txns_amount) < Abs(budget_amount)
                 /\ amount_for_account(spawn, account) = budget_amount - txns_amount
            THEN spawn
            ELSE change(spawn, NOEDIT, <<account>>, <<None>>,
                        <<IF Abs(txns_amount) < Abs(budget_amount)
                          THEN budget_amount - txns_amount ELSE 0>>)
        Consumed(spawn, wheat) ==
            [spawn |-> Changed(spawn, SumForAccount(wheat, account)),
             wheat |-> {t.key : t \in wheat},
             shaft |-> relevant_transactions \ wheat]
        Joined(first, rest) ==
            [spawns |-> <<first.spawn>> \o rest.spawns,
             consumedtxns |-> first.wheat \cup rest.consumedtxns]
        Step(first) ==
            Joined(first, ConsumeSpawns(Tail(spawns), account, budget_amount, first.shaft))
    IN IF spawns = <<>> THEN [spawns |-> <<>>, consumedtxns |-> {}]
       ELSE Step(Consumed(Head(spawns), InPeriod(Head(spawns))))

\* Budget.get_spawns taking every transaction of its account, those another
\* budget consumed included.
Budget_get_spawns_of_every_txn(id, budget, accts, start_date, repeat_type, repeat_every, end, transactions, consumedtxns) ==
    LET end_date(current_date) == inc_date(current_date, repeat_type, repeat_every) - 1
        Future(date_counter) == SelectSeq(date_counter, LAMBDA d : ~(end_date(d) <= Today))
        Spawns(future) == [i \in DOMAIN future |->
                              Spawn(id, Transaction(start_date), future[i], end_date(future[i]), 3)]
        account == budget.account
        budget_amount == IF is_debit_account(accts[account]) THEN budget.amount
                         ELSE -budget.amount
        relevant_transactions ==
            {t \in transactions : account \in affected_accounts(t)}
        Result(done) ==
            [spawns |-> done.spawns, consumedtxns |-> consumedtxns \cup done.consumedtxns]
    IN Result(ConsumeSpawns(
           Spawns(Future(DateCounter(start_date, repeat_type, repeat_every, end))),
           account, budget_amount, relevant_transactions))

\* Budget.get_spawns dating each spawn at the first day of its period.
Budget_get_spawns_at_period_start(id, budget, accts, start_date, repeat_type, repeat_every, end, transactions, consumedtxns) ==
    LET end_date(current_date) == inc_date(current_date, repeat_type, repeat_every) - 1
        Future(date_counter) == SelectSeq(date_counter, LAMBDA d : ~(end_date(d) <= Today))
        Spawns(future) == [i \in DOMAIN future |->
                              Spawn(id, Transaction(start_date), future[i], future[i], 3)]
        account == budget.account
        budget_amount == IF is_debit_account(accts[account]) THEN budget.amount
                         ELSE -budget.amount
        relevant_transactions ==
            {t \in transactions : account \in affected_accounts(t) /\ t.key \notin consumedtxns}
        Result(done) ==
            [spawns |-> done.spawns, consumedtxns |-> consumedtxns \cup done.consumedtxns]
    IN Result(ConsumeSpawns(
           Spawns(Future(DateCounter(start_date, repeat_type, repeat_every, end))),
           account, budget_amount, relevant_transactions))

\* Budget.get_spawns giving a spawn for the periods of the past too.
Budget_get_spawns_of_the_past(id, budget, accts, start_date, repeat_type, repeat_every, end, transactions, consumedtxns) ==
    LET end_date(current_date) == inc_date(current_date, repeat_type, repeat_every) - 1
        Spawns(future) == [i \in DOMAIN future |->
                              Spawn(id, Transaction(start_date), future[i], end_date(future[i]), 3)]
        account == budget.account
        budget_amount == IF is_debit_account(accts[account]) THEN budget.amount
                         ELSE -budget.amount
        relevant_transactions ==
            {t \in transactions : account \in affected_accounts(t) /\ t.key \notin consumedtxns}
        Result(done) ==
            [spawns |-> done.spawns, consumedtxns |-> consumedtxns \cup done.consumedtxns]
    IN Result(ConsumeSpawns(
           Spawns(DateCounter(start_date, repeat_type, repeat_every, end)),
           account, budget_amount, relevant_transactions))

\* Budget.get_spawns: the spawns and the transactions they consumed
Budget_get_spawns(id, budget, accts, start_date, repeat_type, repeat_every, end, transactions, consumedtxns) ==
    LET end_date(current_date) == inc_date(current_date, repeat_type, repeat_every) - 1
        Future(date_counter) == SelectSeq(date_counter, LAMBDA d : ~(end_date(d) <= Today))
        Spawns(future) == [i \in DOMAIN future |->
                              Spawn(id, Transaction(start_date), future[i], end_date(future[i]), 3)]
        account == budget.account
        budget_amount == IF is_debit_account(accts[account]) THEN budget.amount
                         ELSE -budget.amount
        relevant_transactions ==
            {t \in transactions : account \in affected_accounts(t) /\ t.key \notin consumedtxns}
        Result(done) ==
            [spawns |-> done.spawns, consumedtxns |-> consumedtxns \cup done.consumedtxns]
    IN Result(ConsumeSpawns(
           Spawns(Future(DateCounter(start_date, repeat_type, repeat_every, end))),
           account, budget_amount, relevant_transactions))

\* BudgetList.get_spawns, the loop over the budgets (a list of budget numbers)
RECURSIVE BudgetLoop(_, _, _, _, _, _)
BudgetLoop(ids, budget, accts, until_date, txns, account2consumedtxns) ==
    LET Rest(consumed) == BudgetLoop(Tail(ids), budget, accts, until_date, txns, consumed)
        Kept(b, got) ==
            SelectSeq(got.spawns, LAMBDA sp : ~is_null(sp))
            \o Rest([account2consumedtxns EXCEPT ![b.account] = got.consumedtxns])
        One(id, b) ==
            IF b.amount = 0 THEN Rest(account2consumedtxns)
            ELSE Kept(b, Budget_get_spawns(id, b, accts, Today, "monthly", 1, until_date,
                                           txns, account2consumedtxns[b.account]))
    IN IF ids = <<>> THEN <<>> ELSE One(Head(ids), budget[Head(ids)])

\* BudgetList.get_spawns
BudgetList_get_spawns(budgets, budget, accts, until_date, txns) ==
    IF budgets = <<>> THEN <<>>
    ELSE BudgetLoop(budgets, budget, accts, until_date, txns, [a \in AccountNames |-> {}])

\* -------------------------------------------------------- budgeted amounts
\* DateRange(start, end) as <<start, end>>; bool(date_range): it has days
DateRange_bool(date_range) == date_range[1] <= date_range[2]

\* DateRange.days
DateRange_days(date_range) == date_range[2] - date_range[1] + 1

\* DateRange.__and__: the days in both ranges
DateRange_and(first, second) ==
    <<IF first[1] > second[1] THEN first[1] ELSE second[1],
      IF first[2] < second[2] THEN first[2] ELSE second[2]>>

\* Amount * rate, the rate being num / den: the amount keeps the precision of
\* its currency, the product is rounded to the nearest unit, halves away from 0.
Amount_mul(value, num, den) ==
    IF value < 0 THEN -((2 * (-value) * num + den) \div (2 * den))
    ELSE (2 * value * num + den) \div (2 * den)

\* prorate_amount with the rate taken over the days of the wanted range
prorate_amount_over_wanted(value, spread_over_range, wanted_range) ==
    IF ~DateRange_bool(spread_over_range) THEN 0
    ELSE IF ~DateRange_bool(DateRange_and(spread_over_range, wanted_range)) THEN 0
    ELSE Amount_mul(value, DateRange_days(DateRange_and(spread_over_range, wanted_range)),
                    DateRange_days(wanted_range))

\* prorate_amount(amount, spread_over_range, wanted_range)
prorate_amount(value, spread_over_range, wanted_range) ==
    IF ~DateRange_bool(spread_over_range) THEN 0
    ELSE IF ~DateRange_bool(DateRange_and(spread_over_range, wanted_range)) THEN 0
    ELSE Amount_mul(value, DateRange_days(DateRange_and(spread_over_range, wanted_range)),
                    DateRange_days(spread_over_range))

\* Budget.amount_for_date_range(date_range): over the spawns the last
\* get_spawns gave (_previous_spawns)
Budget_amount_for_date_range(budget, _previous_spawns, date_range) ==
    LET my_start_date(spawn) ==
            IF spawn.recurrence_date > Today + 1 THEN spawn.recurrence_date ELSE Today + 1
        One(spawn, value) ==
            IF value = 0 THEN 0
            ELSE prorate_amount(value, <<my_start_date(spawn), spawn.date>>, date_range)
    IN SeqSum([i \in DOMAIN _previous_spawns |->
                 One(_previous_spawns[i],
                     amount_for_account(_previous_spawns[i], budget.account))])

\* The spawn of one schedule slot, the derived one given along with the exception.
SlotSpawnBesideException(id, schedule, slot) ==
    LET changes == {d \in DOMAIN schedule.date2globalchange : d <= slot}
        template == IF changes = {} THEN schedule.ref
                    ELSE schedule.date2globalchange[SetMax(changes)]
    IN (IF slot \in DOMAIN schedule.date2exception
        THEN schedule.date2exception[slot] ELSE <<>>)
       \o <<Spawn(id, template, slot, slot, 2)>>

\* ---------------------------------------------------------------- schedules
\* Recurrence.get_spawns(end), the spawn of one schedule slot: none for a deleted
\* slot (an exception holding nothing), the stored exception, else a copy of the
\* latest global change at or before the slot, else of the reference transaction.
SlotSpawn(id, schedule, slot) ==
    LET changes == {d \in DOMAIN schedule.date2globalchange : d <= slot}
        template == IF changes = {} THEN schedule.ref
                    ELSE schedule.date2globalchange[SetMax(changes)]
    IN IF slot \in DOMAIN schedule.date2exception
       THEN schedule.date2exception[slot]
       ELSE <<Spawn(id, template, slot, slot, 2)>>

RECURSIVE Flatten(_)
Flatten(ss) == IF ss = <<>> THEN <<>> ELSE Head(ss) \o Flatten(Tail(ss))

\* Recurrence.get_spawns(end) giving every stored exception, its date produced
\* by the date counter or not.
Recurrence_get_spawns_of_all(id, schedule, end) ==
    LET stop == IF schedule.stop_date # NoDate /\ schedule.stop_date + 1 < end
                THEN schedule.stop_date + 1 ELSE end
        slots == DateCounter(schedule.ref.date, schedule.repeat_type,
                             schedule.repeat_every, stop)
    IN Flatten([i \in DOMAIN slots |-> SlotSpawn(id, schedule, slots[i])])
       \o Flatten([d \in 1..end |->
                     IF d \in DOMAIN schedule.date2exception \ Range(slots)
                     THEN schedule.date2exception[d] ELSE <<>>])

\* Recurrence.get_spawns(end)
Recurrence_get_spawns(id, schedule, end) ==
    LET stop == IF schedule.stop_date # NoDate /\ schedule.stop_date + 1 < end
                THEN schedule.stop_date + 1 ELSE end
        slots == DateCounter(schedule.ref.date, schedule.repeat_type,
                             schedule.repeat_every, stop)
    IN Flatten([i \in DOMAIN slots |-> SlotSpawn(id, schedule, slots[i])])

\* --------------------------------------------------------------------- oven
\* The transaction list in its order: by date, then position.
RECURSIVE SortedTransactions(_)
SortedTransactions(txns) ==
    IF txns = {} THEN <<>>
    ELSE LET t == CHOOSE x \in txns : \A y \in txns :
                     x = y \/ TupleLess(<<x.date, x.position, x.key[2]>>,
                                        <<y.date, y.position, y.key[2]>>)
         IN <<t>> \o SortedTransactions(txns \ {t})

\* sort(key=date): a stable sort by date
RECURSIVE SortByDate(_)
SortByDate(s) ==
    IF s = <<>> THEN <<>>
    ELSE LET first == SetMin({s[i].date : i \in DOMAIN s})
         IN SelectSeq(s, LAMBDA t : t.date = first)
            \o SortByDate(SelectSeq(s, LAMBDA t : t.date # first))

\* Oven._get_spawns: the schedules' spawns in schedule order, then the budgets'
RECURSIVE ScheduleSpawns(_, _, _)
ScheduleSpawns(ids, schedule, until_date) ==
    IF ids = <<>> THEN <<>>
    ELSE Recurrence_get_spawns(Head(ids), schedule[Head(ids)], until_date)
         \o ScheduleSpawns(Tail(ids), schedule, until_date)

\* Entry(split, transaction) with its running totals after the entry `last`
Entry(split, t, last) ==
    LET prev == IF last = NoEntry
                THEN [balance |-> 0, reconciled_balance |-> 0, balance_with_budget |-> 0]
                ELSE last[1]
    IN [txn |-> t.key, date |-> t.date, position |-> t.position,
        amount |-> split.amount, reconciliation_date |-> split.reconciliation_date,
        is_budget |-> (t.txntype = 3), index |-> 0,
        balance |-> IF t.txntype = 3 THEN prev.balance ELSE prev.balance + split.amount,
        balance_with_budget |-> prev.balance_with_budget + split.amount,
        reconciled_balance |-> IF split.reconciliation_date # NoDate
                               THEN prev.reconciled_balance + split.amount
                               ELSE prev.reconciled_balance]

\* Oven._cook_splits for one account: one entry per split on the account, in order
RECURSIVE CookSplits(_, _, _, _)
CookSplits(el, account, tocook, i) ==
    IF tocook = <<>> THEN el
    ELSE LET t == Head(tocook)
         IN IF i > Len(t.splits) THEN CookSplits(el, account, Tail(tocook), 1)
            ELSE IF t.splits[i].account = account
                 THEN CookSplits(add_entry(el, Entry(t.splits[i], t, last_entry(el, NoDate))),
                                 account, tocook, i + 1)
                 ELSE CookSplits(el, account, tocook, i + 1)

\* The transactions in the document's list.
ListedTransactions(doc) == {doc.txn[i] : i \in doc.transactions}

\* Oven.cook(from_date, until_date): the accounts' entry lists afterwards
Oven_cook(lists, doc, from_date, until_date) ==
    LET real == SortedTransactions(ListedTransactions(doc))
        spawns == ScheduleSpawns(doc.schedules, doc.schedule, until_date)
        budget_spawns == BudgetList_get_spawns(doc.budgets, doc.budget, doc.account, until_date,
                                               ListedTransactions(doc) \cup Range(spawns))
        all == real \o spawns \o budget_spawns
        tocook == SortByDate(SelectSeq(all, LAMBDA t : from_date = NoDate \/ from_date <= t.date))
    IN [a \in AccountNames |-> CookSplits(clear(lists[a], from_date), a, tocook, 1)]

\* Oven.continue_cooking(until_date): cook again from the cooked horizon, only
\* when the new horizon lies beyond it. Gives the entry lists and the horizon.
Oven_continue_cooking(lists, cooked_until, doc, until_date) ==
    IF until_date > cooked_until
    THEN [entries |-> Oven_cook(lists, doc, cooked_until, until_date), _cooked_until |-> until_date]
    ELSE [entries |-> lists, _cooked_until |-> cooked_until]

\* Document.date_range (setter), re-cooking everything up to the new end instead
\* of continuing from the cooked horizon.
date_range_setter_recook(lists, cooked_until, doc, old_range, date_range) ==
    IF date_range = old_range
    THEN [_date_range |-> old_range, entries |-> lists, _cooked_until |-> cooked_until]
    ELSE [_date_range |-> date_range,
          entries |-> Oven_cook(lists, doc, NoDate, date_range[2]),
          _cooked_until |-> date_range[2]]

\* Document.date_range (setter)
date_range_setter(lists, cooked_until, doc, old_range, date_range) ==
    IF date_range = old_range
    THEN [_date_range |-> old_range, entries |-> lists, _cooked_until |-> cooked_until]
    ELSE LET cooked == Oven_continue_cooking(lists, cooked_until, doc, date_range[2])
         IN [_date_range |-> date_range, entries |-> cooked.entries,
             _cooked_until |-> cooked._cooked_until]

\* ==================================================================== state
VARIABLES
    doc,            \* the Document's lists: accounts, groups, transactions, schedules,
                    \* budgets, and the attributes of each of their members
    entries,        \* account name -> its EntryList, as the oven cooked it
    _cooked_until,  \* Oven._cooked_until
    _date_range,    \* Document._date_range, <<start, end>>
    _actions,       \* Undoer._actions
    _index,         \* Undoer._index
    _save_point,    \* Undoer._save_point: <<>> for None, else <<the action's number>>
    el,             \* an EntryList driven directly (add_entry, clear, cash_flow)
    last,           \* the last operation and its arguments
    hist            \* history: the number of Actions created, those applied and those
                    \* undone (by number, in order), those applied at the last save

ovenVars == <<entries, _cooked_until, _date_range>>
undoVars == <<_actions, _index, _save_point>>
vars == <<doc, ovenVars, undoVars, el, last, hist>>

NoHistory == [serial |-> 0, applied |-> <<>>, undone |-> <<>>, saved |-> <<>>]

NewAccount(type, autocreated) ==
    [type |-> type, autocreated |-> autocreated, groupname |-> None, inactive |-> FALSE]

\* Document.__init__: empty lists
NewDocument ==
    [accounts |-> {}, account |-> [a \in AccountNames |-> NewAccount("asset", FALSE)],
     groups |-> {}, group |-> EmptyDict,
     transactions |-> {}, txn |-> EmptyDict,
     schedules |-> <<>>, schedule |-> EmptyDict,
     budgets |-> <<>>, budget |-> EmptyDict]

\* Document.__init__: nothing cooked, an Undoer without actions.
NewOvenAndUndoer ==
    /\ entries = [a \in AccountNames |-> NewEntryList]
    /\ _cooked_until = NoDate
    /\ _date_range = <<Today, MaxDate>>
    /\ _actions = <<>> /\ _index = LastIndex /\ _save_point = <<>>

\* ============================================================ the entry list
\* A stand-alone EntryList, fed in date order as the oven feeds it.
InitEntryList ==
    /\ doc = NewDocument
    /\ NewOvenAndUndoer
    /\ el = NewEntryList
    /\ last = [op |-> "init", date |-> NoDate, n |-> 0]
    /\ hist = NoHistory

\* el.add_entry(Entry(split, transaction)), the entry not before the last one
AddEntry(date, amt, reconciled, is_budget) ==
    LET t == [Transaction(date) EXCEPT !.txntype = IF is_budget THEN 3 ELSE 1,
                                       !.position = Len(el._entries)]
        split == [Split("Food", amt) EXCEPT !.reconciliation_date = IF reconciled THEN date ELSE NoDate]
    IN /\ Len(el._entries) < MaxEntries
       /\ el._entries # <<>> => el._entries[Len(el._entries)].date <= date
       /\ el' = add_entry(el, Entry(split, t, last_entry(el, NoDate)))
       /\ last' = [op |-> "add_entry", date |-> date, n |-> 0]
       /\ UNCHANGED <<doc, ovenVars, undoVars, hist>>

\* el.clear(from_date)
Clear(from_date) ==
    /\ el' = clear(el, from_date)
    /\ last' = [op |-> "clear", date |-> from_date,
                n |-> Len(el._entries) - Len(clear(el, from_date)._entries)]
    /\ UNCHANGED <<doc, ovenVars, undoVars, hist>>

\* el.cash_flow(date_range)
CashFlow(date_range) ==
    /\ el' = cash_flow(el, date_range)
    /\ last' = [op |-> "cash_flow", date |-> date_range[2], n |-> 0]
    /\ UNCHANGED <<doc, ovenVars, undoVars, hist>>

DateRanges == {<<Today, Today + 1>>, <<Today + 1, MaxDate>>}

NextEntryList ==
    \/ \E date \in Dates, amt \in Amounts, reconciled \in BOOLEAN :
          AddEntry(date, amt, reconciled, FALSE)
    \/ \E from_date \in Dates \cup {NoDate} : Clear(from_date)
    \/ \E date_range \in DateRanges : CashFlow(date_range)

SpecEntryList == InitEntryList /\ [][NextEntryList]_vars

\* C9: EntryList.clear(from_date) removes every entry dated on or after
\* from_date and keeps every entry dated before it, fields and balances
\* untouched; with from_date None it removes every entry.
ClearKeepsEarlierEntries ==
    [][last'.op = "clear" =>
          LET from_date == last'.date
          IN /\ el'._entries =
                   SelectSeq(el._entries, LAMBDA e : from_date # NoDate /\ e.date < from_date)
             /\ \A i \in DOMAIN el'._entries : el'._entries[i].date < from_date
             /\ from_date = NoDate => el'._entries = <<>>]_vars

\* Reached: a clear that removed an entry and kept an earlier one.
ClearSplitTheList ==
    /\ last.op = "clear" /\ last.date # NoDate
    /\ last.n > 0
    /\ el._entries # <<>>

\* ================================================================== the oven
\* A loaded document that is cooked, re-cooked and looked at through changing
\* date ranges, its transactions, schedules and budgets staying as loaded.

\* A two-way transaction: amt from from_ to to.
TwoWay(number, date, from_, to, amt, reconciled) ==
    [Transaction(date) EXCEPT
        !.key = <<1, number, NoDate>>, !.position = number,
        !.splits = <<[Split(to, amt) EXCEPT !.reconciliation_date = IF reconciled THEN date ELSE NoDate],
                     Split(from_, -amt)>>]

NewSchedule(ref, repeat_type, repeat_every, stop_date) ==
    [ref |-> ref, repeat_type |-> repeat_type, repeat_every |-> repeat_every,
     stop_date |-> stop_date, date2exception |-> EmptyDict, date2globalchange |-> EmptyDict]

LoadedTransactions ==
    {(1 :> TwoWay(1, d, "New account", "Food", 10, r)) : d \in {Today, MaxDate - 1}, r \in BOOLEAN}
    \cup {(1 :> TwoWay(1, Today, "New account", "Food", 10, FALSE))
          @@ (2 :> TwoWay(2, d, "New account", "Food", 20, FALSE)) : d \in Dates}

LoadedSchedules ==
    {EmptyDict}
    \cup {(1 :> NewSchedule(TwoWay(0, Today, "New account", "Food", 10, FALSE), "daily", e, NoDate)) :
             e \in {1, 2}}

\* No budget, one, or two on the same expense account (all budgets of the list
\* share its start date and its period, so two on one account overlap).
LoadedBudgets ==
    {EmptyDict,
     (1 :> [account |-> "Food", amount |-> 30, notes |-> "n"]),
     (1 :> [account |-> "Food", amount |-> 30, notes |-> "n"])
     @@ (2 :> [account |-> "Food", amount |-> 20, notes |-> "n"])}

LoadedDocuments ==
    {[NewDocument EXCEPT
        !.accounts = AccountNames,
        !.account = [a \in AccountNames |->
                        NewAccount(IF a = "Food" THEN "expense" ELSE "asset", FALSE)],
        !.transactions = DOMAIN t, !.txn = t,
        !.schedules = IF sc = EmptyDict THEN <<>> ELSE <<1>>, !.schedule = sc,
        !.budgets = [i \in 1..Cardinality(DOMAIN b) |-> i], !.budget = b] :
     t \in LoadedTransactions, sc \in LoadedSchedules, b \in LoadedBudgets}

OvenOp(op, date, until) ==
    [op |-> op, date |-> date, until |-> until,
     prev_op |-> last.op, prev_date |-> last.date, prev_until |-> last.until]

InitOven ==
    /\ doc \in LoadedDocuments
    /\ NewOvenAndUndoer
    /\ el = NewEntryList
    /\ last = [op |-> "init", date |-> NoDate, until |-> NoDate,
               prev_op |-> "init", prev_date |-> NoDate, prev_until |-> NoDate]
    /\ hist = NoHistory

\* Document._cook(from_date)
Cook(from_date) ==
    /\ entries' = Oven_cook(entries, doc, from_date, _date_range[2])
    /\ _cooked_until' = _date_range[2]
    /\ last' = OvenOp("cook", from_date, _date_range[2])
    /\ UNCHANGED <<doc, _date_range, undoVars, el, hist>>

\* document.date_range = date_range
SetDateRange(date_range) ==
    LET set == date_range_setter(entries, _cooked_until, doc, _date_range, date_range)
    IN /\ _date_range' = set._date_range
       /\ entries' = set.entries
       /\ _cooked_until' = set._cooked_until
       /\ last' = OvenOp("date_range", NoDate, date_range[2])
       /\ UNCHANGED <<doc, undoVars, el, hist>>

\* account.entries.cash_flow(date_range) of the expense account
AccountCashFlow(date_range) ==
    /\ entries' = [entries EXCEPT !["Food"] = cash_flow(@, date_range)]
    /\ last' = OvenOp("cash_flow", NoDate, date_range[2])
    /\ UNCHANGED <<doc, _cooked_until, _date_range, undoVars, el, hist>>

NextOven ==
    \/ \E from_date \in {NoDate, Today + 1} : Cook(from_date)
    \/ \E end \in Dates : SetDateRange(<<Today, end>>)
    \/ \E date_range \in DateRanges : AccountCashFlow(date_range)

SpecOven == InitOven /\ [][NextOven]_vars

EntriesOf(lists) == [a \in AccountNames |-> lists[a]._entries]

SomeEntryFrom(lists, date) ==
    \E a \in AccountNames : \E i \in DOMAIN lists[a]._entries : lists[a]._entries[i].date >= date

\* C7: cook(None, D) right after cook(None, D), nothing changed in between,
\* leaves every account's entry list, balances and cached values as the first
\* call left them.
CookTwiceIsCookOnce ==
    [][(/\ last.op = "cook" /\ last.date = NoDate
        /\ last'.op = "cook" /\ last'.date = NoDate
        /\ last'.until = last.until)
       => entries' = entries]_vars

\* Reached: a second cook(None, D) in a row, over real, scheduled and budget entries.
CookedTwice ==
    /\ last.op = "cook" /\ last.date = NoDate
    /\ last.prev_op = "cook" /\ last.prev_date = NoDate /\ last.prev_until = last.until
    /\ \E i \in DOMAIN entries["Food"]._entries : entries["Food"]._entries[i].txn[1] = 2
    /\ \E i \in DOMAIN entries["Food"]._entries : entries["Food"]._entries[i].is_budget

\* C8: cook(None, D) followed by continue_cooking(D2), D < D2, gives every
\* account the entries, in the order and with the running balances, of
\* cook(None, D2).
ContinueEqualsFullCook ==
    (/\ last.op = "date_range"
     /\ last.prev_op = "cook" /\ last.prev_date = NoDate
     /\ last.prev_until < last.until)
    => EntriesOf(entries)
         = EntriesOf(Oven_cook([a \in AccountNames |-> NewEntryList], doc, NoDate, last.until))

\* Reached: a continue_cooking after a full cook that kept entries and added some.
ContinuedCooking ==
    /\ last.op = "date_range"
    /\ last.prev_op = "cook" /\ last.prev_date = NoDate
    /\ last.prev_until < last.until
    /\ \E i \in DOMAIN entries["Food"]._entries :
          entries["Food"]._entries[i].date < last.prev_until
    /\ \E i \in DOMAIN entries["Food"]._entries :
          /\ entries["Food"]._entries[i].date >= last.prev_until
          /\ entries["Food"]._entries[i].txn[1] = 2

\* C10: setting a date range whose end is not after the cooked horizon changes
\* no entry list, balance or cached value, nor the horizon.
ContinueWithinHorizonIsNoOp ==
    [][(last'.op = "date_range" /\ last'.until <= _cooked_until)
       => (entries' = entries /\ _cooked_until' = _cooked_until)]_vars

\* Reached: the date range pulled back before the cooked horizon, entries
\* beyond the new end still cooked.
RangePulledBack ==
    /\ last.op = "date_range"
    /\ last.until < _cooked_until
    /\ _date_range[2] = last.until
    /\ SomeEntryFrom(entries, last.until + 1)

\* ================================================================ the undoer
\* The document with its oven and its undoer, as one value st:
\*   [doc, entries, _actions, _index]
\* doc.txn, doc.schedule, doc.budget, doc.group and doc.account hold the objects
\* (also those an Action still holds while they are out of the lists);
\* doc.transactions, doc.schedules, doc.budgets, doc.groups and doc.accounts are
\* the lists. An Action's number stands for the identity of the Action object.

\* Python's list[i], i possibly negative
PyIndex(s, i) == IF i < 0 THEN s[Len(s) + i + 1] ELSE s[i + 1]

\* A set of numbers in ascending order
RECURSIVE Ascending(_)
Ascending(S) == IF S = {} THEN <<>> ELSE <<SetMin(S)>> \o Ascending(S \ {SetMin(S)})

\* Action(description)
Action(id, description) ==
    [id |-> id, description |-> description,
     added_accounts |-> {}, changed_accounts |-> {}, deleted_accounts |-> {},
     added_groups |-> {}, changed_groups |-> EmptyDict, deleted_groups |-> {},
     added_transactions |-> {}, changed_transactions |-> EmptyDict, deleted_transactions |-> {},
     added_schedules |-> {}, changed_schedules |-> EmptyDict, deleted_schedules |-> {},
     added_budgets |-> {}, changed_budgets |-> EmptyDict, deleted_budgets |-> {},
     undostep |-> [added |-> {}, deleted |-> {}, changed |-> EmptyDict]]

\* Action.change_accounts
Action_change_accounts(action, accounts) ==
    [action EXCEPT !.changed_accounts = @ \cup accounts]

\* Action.change_groups: a copy of each group not yet recorded
Action_change_groups(action, groups, document) ==
    [action EXCEPT !.changed_groups =
        [g \in (DOMAIN @) \cup groups |-> IF g \in DOMAIN @ THEN @[g] ELSE document.group[g]]]

\* Action.change_schedule
Action_change_schedule(action, schedule, document) ==
    IF schedule \in DOMAIN action.changed_schedules THEN action
    ELSE [action EXCEPT !.changed_schedules = DictSet(@, schedule, document.schedule[schedule])]

\* Action.change_budget
Action_change_budget(action, budget, document) ==
    IF budget \in DOMAIN action.changed_budgets THEN action
    ELSE [action EXCEPT !.changed_budgets = DictSet(@, budget, document.budget[budget])]

\* Action.change_transactions, the transactions all real ones
Action_change_transactions(action, transactions, document) ==
    [action EXCEPT !.changed_transactions =
        [t \in (DOMAIN @) \cup transactions |-> IF t \in DOMAIN @ THEN @[t] ELSE document.txn[t]]]

\* AccountList.remove: the account leaves the list, and its entries with it
AccountList_remove(st, account) ==
    IF account \notin st.doc.accounts THEN st
    ELSE [st EXCEPT !.doc.accounts = @ \ {account}, !.entries[account] = NewEntryList]

\* AccountList.create_from(account): a copy of the account enters the list
AccountList_create_from(st, account) ==
    [st EXCEPT !.doc.accounts = @ \cup {account}, !.entries[account] = NewEntryList]

\* AccountList.entries_for_account
entries_for_account(st, account) == st.entries[account]._entries

\* Undoer._add_auto_created_accounts, from split i on
RECURSIVE _add_auto_created_accounts(_, _, _)
_add_auto_created_accounts(st, transaction, i) ==
    LET splits == st.doc.txn[transaction].splits
    IN IF i > Len(splits) THEN st
       ELSE IF splits[i].account # None /\ splits[i].account \notin st.doc.accounts
            THEN _add_auto_created_accounts(AccountList_create_from(st, splits[i].account),
                                            transaction, i + 1)
            ELSE _add_auto_created_accounts(st, transaction, i + 1)

\* The test of Undoer._remove_auto_created_account:
\* account and account.autocreated and len(entries) == 1
IsLastOfAutoCreated(st, account) ==
    /\ account # None
    /\ st.doc.account[account].autocreated
    /\ Len(entries_for_account(st, account)) = 1

\* Undoer._remove_auto_created_account, from split i on
RECURSIVE _remove_auto_created_account(_, _, _)
_remove_auto_created_account(st, transaction, i) ==
    LET splits == st.doc.txn[transaction].splits
    IN IF i > Len(splits) THEN st
       ELSE IF IsLastOfAutoCreated(st, splits[i].account)
            THEN _remove_auto_created_account(AccountList_remove(st, splits[i].account),
                                              transaction, i + 1)
            ELSE _remove_auto_created_account(st, transaction, i + 1)

\* TransactionList.add(transaction, keep_position): without keep_position the
\* transaction goes after the others of its date
TransactionList_add(document, transaction, keep_position) ==
    LET same == {document.txn[k].position : k \in {x \in document.transactions \ {transaction} :
                                                document.txn[x].date = document.txn[transaction].date}}
    IN [document EXCEPT !.transactions = @ \cup {transaction},
                   !.txn[transaction].position =
                       IF keep_position THEN @ ELSE IF same = {} THEN 1 ELSE SetMax(same) + 1]

\* The transactions loop of Undoer._do_adds
RECURSIVE AddTransactions(_, _)
AddTransactions(st, transactions) ==
    IF transactions = <<>> THEN st
    ELSE LET txn == Head(transactions)
             added == [st EXCEPT !.doc = TransactionList_add(@, txn, TRUE)]
         IN AddTransactions(_add_auto_created_accounts(added, txn, 1), Tail(transactions))

\* Undoer._do_adds
_do_adds(st, accounts, groups, transactions, schedules, budgets) ==
    LET s1 == [st EXCEPT !.doc.groups = @ \cup groups]
        s2 == AddTransactions(s1, Ascending(transactions))
    IN [s2 EXCEPT !.doc.schedules = @ \o Ascending(schedules),
                  !.doc.budgets = @ \o Ascending(budgets)]

\* The transactions loop of Undoer._do_deletes
RECURSIVE DeleteTransactions(_, _)
DeleteTransactions(st, transactions) ==
    IF transactions = <<>> THEN st
    ELSE LET txn == Head(transactions)
             s1 == _remove_auto_created_account(st, txn, 1)
         IN DeleteTransactions([s1 EXCEPT !.doc.transactions = @ \ {txn}], Tail(transactions))

\* Undoer._do_deletes
_do_deletes(st, accounts, groups, transactions, schedules, budgets) ==
    LET s1 == [st EXCEPT !.doc.groups = @ \ groups]
        s2 == DeleteTransactions(s1, Ascending(transactions))
    IN [s2 EXCEPT !.doc.schedules = SelectSeq(@, LAMBDA x : x \notin schedules),
                  !.doc.budgets = SelectSeq(@, LAMBDA x : x \notin budgets)]

\* The transactions loop of Undoer._do_changes on the action at place n of the list
RECURSIVE ChangeTransactions(_, _, _)
ChangeTransactions(st, n, transactions) ==
    IF transactions = <<>> THEN st
    ELSE LET txn == Head(transactions)
             s1 == _remove_auto_created_account(st, txn, 1)
             old == s1._actions[n].changed_transactions[txn]
             newold == s1.doc.txn[txn]
             s2 == [s1 EXCEPT !.doc.txn[txn] = old,
                              !._actions[n].changed_transactions[txn] = newold]
         IN ChangeTransactions(_add_auto_created_accounts(s2, txn, 1), n, Tail(transactions))

\* Undoer._do_changes on the action at place n of the list: every changed
\* object swaps its values with its copy in the action
_do_changes(st, n) ==
    LET action == st._actions[n]
        s1 == [st EXCEPT
                 !.doc.group = [g \in DOMAIN @ |->
                     IF g \in DOMAIN action.changed_groups THEN action.changed_groups[g] ELSE @[g]],
                 !._actions[n].changed_groups = [g \in DOMAIN @ |-> st.doc.group[g]]]
        s2 == ChangeTransactions(s1, n, Ascending(DOMAIN action.changed_transactions))
    IN [s2 EXCEPT
          !.doc.schedule = [x \in DOMAIN @ |->
              IF x \in DOMAIN action.changed_schedules THEN action.changed_schedules[x] ELSE @[x]],
          !._actions[n].changed_schedules = [x \in DOMAIN @ |-> s2.doc.schedule[x]],
          !.doc.budget = [x \in DOMAIN @ |->
              IF x \in DOMAIN action.changed_budgets
              THEN [@[x] EXCEPT !.account = action.changed_budgets[x].account,
                                !.amount = action.changed_budgets[x].amount]
              ELSE @[x]],
          !._actions[n].changed_budgets = [x \in DOMAIN @ |->
              [@[x] EXCEPT !.account = s2.doc.budget[x].account,
                           !.amount = s2.doc.budget[x].amount]]]

\* UndoStep.undo / UndoStep.redo on the action at place n: the accounts of
\* `gone` leave the list, those of `back` enter it, the changed ones swap their
\* values with their copies
UndoStep_apply(st, n, gone, back) ==
    LET changed == st._actions[n].undostep.changed
    IN [st EXCEPT
          !.doc.accounts = (@ \ gone) \cup back,
          !.doc.account = [a \in DOMAIN @ |-> IF a \in DOMAIN changed THEN changed[a] ELSE @[a]],
          !._actions[n].undostep.changed = [a \in DOMAIN @ |-> st.doc.account[a]],
          !.entries = [a \in DOMAIN @ |-> IF a \in gone \cup back THEN NewEntryList ELSE @[a]]]

\* Undoer.can_redo answering from the action list instead of the cursor
can_redo_after_any(actions, index) == actions # <<>>

\* Undoer.can_redo
can_redo(actions, index) == index < LastIndex

\* Undoer.can_undo answering one step too late
can_undo_one_more(actions, index) == -index <= Len(actions) + 1

\* Undoer.can_undo
can_undo(actions, index) == -index <= Len(actions)

\* Undoer.set_save_point: the last action of the list, None without actions
set_save_point(actions, index) ==
    IF actions # <<>> THEN <<PyIndex(actions, LastIndex).id>> ELSE <<>>

\* Undoer.modified
modified(actions, index, save_point) ==
    IF can_undo(actions, index)
    THEN save_point # <<PyIndex(actions, index).id>>
    ELSE save_point # <<>>

\* UndoStep(added, deleted, changed): with a copy of each changed account
UndoStep(st, action) ==
    [added |-> action.added_accounts, deleted |-> action.deleted_accounts,
     changed |-> [a \in action.changed_accounts |-> st.doc.account[a]]]

\* Undoer.record appending without discarding the undone actions
record_keeping_undone(st, action) ==
    [st EXCEPT !._actions = Append(@, [action EXCEPT !.undostep = UndoStep(st, action)]),
               !._index = LastIndex]

\* Undoer.record
record(st, action) ==
    LET kept == IF st._index < LastIndex
                THEN SubSeq(st._actions, 1, Len(st._actions) + st._index + 1)
                ELSE st._actions
    IN [st EXCEPT !._actions = Append(kept, [action EXCEPT !.undostep = UndoStep(st, action)]),
                  !._index = LastIndex]

\* Undoer.undo, past its assertion
Undoer_undo(st) ==
    LET n == Len(st._actions) + st._index + 1
        action == PyIndex(st._actions, st._index)
        s1 == UndoStep_apply(st, n, action.undostep.added, action.undostep.deleted)
        s2 == _do_adds(s1, action.deleted_accounts, action.deleted_groups,
                       action.deleted_transactions, action.deleted_schedules,
                       action.deleted_budgets)
        s3 == _do_deletes(s2, action.added_accounts, action.added_groups,
                          action.added_transactions, action.added_schedules,
                          action.added_budgets)
    IN [_do_changes(s3, n) EXCEPT !._index = @ - 1]

\* Undoer.redo, past its assertion
Undoer_redo(st) ==
    LET n == IF st._index + 1 < 0 THEN Len(st._actions) + st._index + 2 ELSE st._index + 2
        action == PyIndex(st._actions, st._index + 1)
        s1 == UndoStep_apply(st, n, action.undostep.deleted, action.undostep.added)
        s2 == _do_adds(s1, action.added_accounts, action.added_groups,
                       action.added_transactions, action.added_schedules,
                       action.added_budgets)
        s3 == _do_deletes(s2, action.deleted_accounts, action.deleted_groups,
                          action.deleted_transactions, action.deleted_schedules,
                          action.deleted_budgets)
    IN [_do_changes(s3, n) EXCEPT !._index = @ + 1]

\* ============================================================== the document
\* Document._cook(from_date): cook up to the end of the date range
_cook(st, from_date) ==
    [st EXCEPT !.entries = Oven_cook(@, st.doc, from_date, _date_range[2]),
               !._cooked_until = _date_range[2]]

\* new_name(base_name, search_func): the first of base_name, "base_name 1", ...
\* that names nothing yet
new_name(base_name, taken) ==
    IF base_name \notin taken THEN base_name
    ELSE IF base_name = "New account" THEN "New account 1" ELSE "New group 1"

\* AccountList.find(name, auto_create_type): the list afterwards; the account
\* found or created is the one of that name
AccountList_find(st, name, auto_create_type) ==
    IF name \in st.doc.accounts \/ auto_create_type = None THEN st
    ELSE [st EXCEPT !.doc.accounts = @ \cup {name},
                    !.doc.account[name] = NewAccount(auto_create_type, TRUE),
                    !.entries[name] = NewEntryList]

\* AccountList.clean_empty_categories: the auto-created accounts without
\* entries leave the list
clean_empty_categories(st) ==
    [st EXCEPT !.doc.accounts =
        {a \in @ : ~(st.doc.account[a].autocreated /\ entries_for_account(st, a) = <<>>)}]

\* TransactionList.move_last = move_before(transaction, None)
move_last(document, transaction) ==
    LET others == {k \in document.transactions \ {transaction} :
                      document.txn[k].date = document.txn[transaction].date}
    IN IF transaction \notin document.transactions \/ others = {} THEN document
       ELSE [document EXCEPT !.txn[transaction].position =
                SetMax({document.txn[k].position : k \in others}) + 1]

\* Document._change_transaction of a real transaction
_change_transaction(st, transaction, date, from_, to, amt) ==
    LET t == st.doc.txn[transaction]
        date_changed == date # NOEDIT /\ date # <<t.date>>
        s1 == [st EXCEPT !.doc.txn[transaction] = change(t, date, from_, to, amt)]
    IN IF transaction \notin st.doc.transactions
       THEN [s1 EXCEPT !.doc = TransactionList_add(@, transaction, FALSE)]
       ELSE IF date_changed THEN [s1 EXCEPT !.doc = move_last(@, transaction)]
       ELSE s1

\* Document._get_action_from_changed_transactions, the transactions real ones
_get_action_from_changed_transactions(st, id, transactions) ==
    IF Len(transactions) = 1 /\ transactions[1] \notin st.doc.transactions
    THEN [Action(id, "Add transaction") EXCEPT !.added_transactions = {transactions[1]}]
    ELSE Action_change_transactions(Action(id, "Change transaction"), Range(transactions), st.doc)

\* The loop of Document.change_transactions
RECURSIVE ChangeEach(_, _, _, _, _, _)
ChangeEach(st, transactions, date, from_, to, amt) ==
    IF transactions = <<>> THEN st
    ELSE ChangeEach(_change_transaction(st, Head(transactions), date, from_, to, amt),
                    Tail(transactions), date, from_, to, amt)

\* Document.change_transactions(transactions, date, from_, to, amount); from_
\* and to are NOEDIT or <<account name>>, "" for no account. The date range
\* around the last transaction's date is the one that is set already.
change_transactions(st, id, transactions, date, from_, to, amt) ==
    LET action == _get_action_from_changed_transactions(st, id, transactions)
        s1 == record(st, action)
        s2 == IF from_ # NOEDIT /\ from_ # <<"">>
              THEN AccountList_find(s1, from_[1], "income") ELSE s1
        s3 == IF to # NOEDIT /\ to # <<"">>
              THEN AccountList_find(s2, to[1], "expense") ELSE s2
        from_account == IF from_ = <<"">> THEN <<None>> ELSE from_
        to_account == IF to = <<"">> THEN <<None>> ELSE to
        min_date == SetMin({st.doc.txn[transactions[i]].date : i \in DOMAIN transactions}
                           \cup Range(date))
        s4 == ChangeEach(s3, transactions, date, from_account, to_account, amt)
    IN clean_empty_categories(_cook(s4, min_date))

\* Document.delete_transactions(transactions), the transactions real ones
delete_transactions(st, id, transactions) ==
    LET action == [Action(id, "Remove transaction") EXCEPT !.deleted_transactions = transactions]
        s1 == record(st, action)
        s2 == [s1 EXCEPT !.doc.transactions = @ \ transactions]
        min_date == SetMin({st.doc.txn[t].date : t \in transactions})
    IN clean_empty_categories(_cook(s2, min_date))

\* Document.new_account(type, group)
new_account(st, id, type, group) ==
    LET name == new_name("New account", st.doc.accounts)
        created == [NewAccount(type, FALSE) EXCEPT
                      !.groupname = IF group = <<>> THEN None ELSE st.doc.group[group[1]].name]
        s1 == [st EXCEPT !.doc.accounts = @ \cup {name}, !.doc.account[name] = created,
                         !.entries[name] = NewEntryList]
    IN record(s1, [Action(id, "Add account") EXCEPT !.added_accounts = {name}])

\* Document.change_accounts(accounts, type, inactive)
change_accounts(st, id, accounts, type, inactive) ==
    LET s1 == record(st, Action_change_accounts(Action(id, "Change account"), accounts))
        s2 == [s1 EXCEPT !.doc.account = [a \in DOMAIN @ |->
                  IF a \notin accounts THEN @[a]
                  ELSE [@[a] EXCEPT
                          !.type = IF type # NOEDIT THEN type[1] ELSE @,
                          !.groupname = IF type # NOEDIT /\ type # <<s1.doc.account[a].type>>
                                        THEN None ELSE @,
                          !.inactive = IF inactive # NOEDIT THEN inactive[1] ELSE @]]]
    IN _cook(s2, NoDate)

\* Document.new_group(type)
new_group(st, id, group, type) ==
    LET name == new_name("New group", {st.doc.group[g].name : g \in st.doc.groups})
        s1 == record(st, [Action(id, "Add group") EXCEPT !.added_groups = {group}])
    IN [s1 EXCEPT !.doc.group = DictSet(@, group, [name |-> name, type |-> type]),
                  !.doc.groups = @ \cup {group}]

\* Document.change_group(group, name); st itself when the name is taken
change_group(st, id, group, name) ==
    LET action == Action_change_groups(Action(id, "Change group"), {group}, st.doc)
        oldname == st.doc.group[group].name
        clash == \E other \in st.doc.groups \ {group} :
                    /\ st.doc.group[other].name = name
                    /\ st.doc.group[other].type = st.doc.group[group].type
        s1 == [st EXCEPT !.doc.group[group].name = name,
                         !.doc.account = [a \in DOMAIN @ |->
                             IF a \in st.doc.accounts /\ @[a].groupname = oldname
                             THEN [@[a] EXCEPT !.groupname = name] ELSE @[a]]]
    IN IF clash THEN st ELSE record(s1, action)

\* Document.delete_groups(groups)
delete_groups(st, id, groups) ==
    LET groupnames == {st.doc.group[g].name : g \in groups}
        accounts == {a \in st.doc.accounts : st.doc.account[a].groupname \in groupnames}
        action == Action_change_accounts(
                      [Action(id, "Remove group") EXCEPT !.deleted_groups = groups], accounts)
        s1 == record(st, action)
    IN [s1 EXCEPT !.doc.groups = @ \ groups,
                  !.doc.account = [a \in DOMAIN @ |->
                      IF a \in accounts THEN [@[a] EXCEPT !.groupname = None] ELSE @[a]]]

\* The loop over new_ref.splits of Document.change_schedule
RECURSIVE FindSplitAccounts(_, _, _)
FindSplitAccounts(st, splits, type) ==
    IF splits = <<>> THEN st
    ELSE FindSplitAccounts(IF Head(splits).account # None
                           THEN AccountList_find(st, Head(splits).account, type) ELSE st,
                           Tail(splits), type)

\* Document.change_schedule(schedule, new_ref, repeat_type, repeat_every, stop_date)
change_schedule(st, id, schedule, new_ref, repeat_type, repeat_every, stop_date) ==
    LET s1 == FindSplitAccounts(st, new_ref.splits, "expense")
        listed == schedule \in Range(st.doc.schedules)
        action == IF listed
                  THEN Action_change_schedule(Action(id, "Change Schedule"), schedule, s1.doc)
                  ELSE [Action(id, "Add Schedule") EXCEPT !.added_schedules = {schedule}]
        s2 == record(s1, action)
        original == s2.doc.schedule[schedule].ref
        min_date == IF original.date < new_ref.date THEN original.date ELSE new_ref.date
        s3 == [s2 EXCEPT !.doc.schedule[schedule] =
                  [@ EXCEPT !.ref = [original EXCEPT !.splits = new_ref.splits,
                                                     !.date = new_ref.date],
                            !.repeat_type = repeat_type, !.repeat_every = repeat_every,
                            !.stop_date = stop_date],
               !.doc.schedules = IF listed THEN @ ELSE Append(@, schedule)]
    IN _cook(s3, min_date)

\* Document.delete_schedules(schedules), at least one
delete_schedules(st, id, schedules) ==
    LET s1 == record(st, [Action(id, "Remove Schedule") EXCEPT !.deleted_schedules = schedules])
        min_date == SetMin({st.doc.schedule[x].ref.date : x \in schedules})
    IN _cook([s1 EXCEPT !.doc.schedules = SelectSeq(@, LAMBDA x : x \notin schedules)], min_date)

\* Document.change_budget(original, new)
change_budget(st, id, original, new) ==
    LET listed == original \in Range(st.doc.budgets)
        action == IF listed
                  THEN Action_change_budget(Action(id, "Change Budget"), original, st.doc)
                  ELSE [Action(id, "Add Budget") EXCEPT !.added_budgets = {original}]
        s1 == record(st, action)
        s2 == [s1 EXCEPT !.doc.budget = DictSet(@, original, new),
                         !.doc.budgets = IF listed THEN @ ELSE Append(@, original)]
    IN _cook(s2, Today)

\* Document.delete_budgets(budgets), at least one
delete_budgets(st, id, budgets) ==
    LET s1 == record(st, [Action(id, "Remove Budget") EXCEPT !.deleted_budgets = budgets])
    IN _cook([s1 EXCEPT !.doc.budgets = SelectSeq(@, LAMBDA x : x \notin budgets)], Today)

\* Document.undo, past the undoer's assertion
Document_undo(st) == _cook(Undoer_undo(st), NoDate)

\* Document.redo, past the undoer's assertion
Document_redo(st) == _cook(Undoer_redo(st), NoDate)

\* ====================================================== the document at work
\* A new document the user edits, undoing, redoing and saving at will.
MaxTransactions == 2
MaxGroups == 1
MaxSchedules == 1
MaxBudgets == 1

Now ==
    [doc |-> doc, entries |-> entries, _cooked_until |-> _cooked_until,
     _actions |-> _actions, _index |-> _index]

Becomes(st) ==
    /\ doc' = st.doc
    /\ entries' = st.entries
    /\ _cooked_until' = st._cooked_until
    /\ _actions' = st._actions
    /\ _index' = st._index

Init ==
    /\ doc = NewDocument
    /\ NewOvenAndUndoer
    /\ el = NewEntryList
    /\ last = [op |-> "init", raised |-> FALSE, discarded |-> 0]
    /\ hist = NoHistory

\* A command that recorded an Action and left the document as st.
Recorded(op, st) ==
    /\ Becomes(st)
    /\ hist' = [hist EXCEPT !.serial = @ + 1, !.applied = Append(@, hist.serial + 1),
                            !.undone = <<>>]
    /\ last' = [op |-> op, raised |-> FALSE, discarded |-> Len(hist.undone)]
    /\ UNCHANGED <<_date_range, _save_point, el>>

NextAction == hist.serial + 1

\* A new Transaction(date), then document.change_transactions([it], to=, amount=)
AddTransaction(date, to) ==
    LET k == Cardinality(DOMAIN doc.txn) + 1
        created == [Transaction(date) EXCEPT !.key = <<1, k, NoDate>>]
        st == [Now EXCEPT !.doc.txn = DictSet(@, k, created)]
    IN /\ hist.serial < MaxRecorded
       /\ k <= MaxTransactions
       /\ Recorded("change_transactions",
                   change_transactions(st, NextAction, <<k>>, NOEDIT, NOEDIT, to, <<10>>))

\* document.change_transactions(transactions, to=)
EditTransactions(transactions, to) ==
    /\ hist.serial < MaxRecorded
    /\ Recorded("change_transactions",
                change_transactions(Now, NextAction, Ascending(transactions),
                                    NOEDIT, NOEDIT, to, NOEDIT))

\* document.delete_transactions(transactions)
RemoveTransactions(transactions) ==
    /\ hist.serial < MaxRecorded
    /\ Recorded("delete_transactions", delete_transactions(Now, NextAction, transactions))

\* document.new_account(AccountType.Asset, group)
AddAccount(group) ==
    /\ hist.serial < MaxRecorded
    /\ new_name("New account", doc.accounts) \in AccountNames
    /\ Recorded("new_account", new_account(Now, NextAction, "asset", group))

\* document.change_accounts([account], inactive=)
EditAccount(account) ==
    /\ hist.serial < MaxRecorded
    /\ Recorded("change_accounts",
                change_accounts(Now, NextAction, {account}, NOEDIT,
                                <<~doc.account[account].inactive>>))

\* document.new_group(AccountType.Asset)
AddGroup ==
    LET g == Cardinality(DOMAIN doc.group) + 1
    IN /\ hist.serial < MaxRecorded
       /\ g <= MaxGroups
       /\ Recorded("new_group", new_group(Now, NextAction, g, "asset"))

\* document.change_group(group, name=)
RenameGroup(group, name) ==
    LET st == change_group(Now, NextAction, group, name)
    IN /\ hist.serial < MaxRecorded
       /\ IF st = Now THEN UNCHANGED vars ELSE Recorded("change_group", st)

\* document.delete_groups([group])
RemoveGroup(group) ==
    /\ hist.serial < MaxRecorded
    /\ Recorded("delete_groups", delete_groups(Now, NextAction, {group}))

\* A new schedule, then document.change_schedule(it, new_ref, ...)
AddSchedule ==
    LET x == Cardinality(DOMAIN doc.schedule) + 1
        ref == [Transaction(Today) EXCEPT !.key = <<1, 0, NoDate>>]
        new_ref == [ref EXCEPT !.date = Today + 1, !.splits = <<Split(None, 10), Split(None, -10)>>]
        st == [Now EXCEPT !.doc.schedule = DictSet(@, x, NewSchedule(ref, "daily", 1, NoDate))]
    IN /\ hist.serial < MaxRecorded
       /\ x <= MaxSchedules
       /\ Recorded("change_schedule",
                   change_schedule(st, NextAction, x, new_ref, "daily", 2, NoDate))

\* document.change_schedule(schedule, new_ref, ...) of a schedule of the list
EditSchedule(schedule) ==
    LET old == doc.schedule[schedule]
        new_ref == [old.ref EXCEPT !.date = Today]
    IN /\ hist.serial < MaxRecorded
       /\ Recorded("change_schedule",
                   change_schedule(Now, NextAction, schedule, new_ref, "daily",
                                   3 - old.repeat_every, MaxDate - 1))

\* document.delete_schedules([schedule])
RemoveSchedule(schedule) ==
    /\ hist.serial < MaxRecorded
    /\ Recorded("delete_schedules", delete_schedules(Now, NextAction, {schedule}))

\* A new budget for an expense account, then document.change_budget(it, new)
AddBudget(account) ==
    LET b == Cardinality(DOMAIN doc.budget) + 1
        new == [account |-> account, amount |-> 30, notes |-> ""]
    IN /\ hist.serial < MaxRecorded
       /\ b <= MaxBudgets
       /\ doc.account[account].type = "expense"
       /\ Recorded("change_budget", change_budget(Now, NextAction, b, new))

\* document.change_budget(budget, new) of a budget of the list
EditBudget(budget) ==
    LET new == [doc.budget[budget] EXCEPT !.amount = 50 - @, !.notes = "edited"]
    IN /\ hist.serial < MaxRecorded
       /\ Recorded("change_budget", change_budget(Now, NextAction, budget, new))

\* document.delete_budgets([budget])
RemoveBudget(budget) ==
    /\ hist.serial < MaxRecorded
    /\ Recorded("delete_budgets", delete_budgets(Now, NextAction, {budget}))

\* document.undo(): Undoer.undo asserts can_undo() before anything else
Undo ==
    /\ IF can_undo(_actions, _index)
       THEN /\ Becomes(Document_undo(Now))
            /\ hist' = IF hist.applied = <<>> THEN hist
                       ELSE [hist EXCEPT !.applied = SubSeq(@, 1, Len(@) - 1),
                                         !.undone = <<hist.applied[Len(hist.applied)]>> \o @]
            /\ last' = [op |-> "undo", raised |-> FALSE, discarded |-> 0]
       ELSE /\ UNCHANGED <<doc, entries, _cooked_until, _actions, _index, hist>>
            /\ last' = [op |-> "undo", raised |-> TRUE, discarded |-> 0]
    /\ UNCHANGED <<_date_range, _save_point, el>>

\* document.redo(): Undoer.redo asserts can_redo() before anything else
Redo ==
    /\ IF can_redo(_actions, _index)
       THEN /\ Becomes(Document_redo(Now))
            /\ hist' = IF hist.undone = <<>> THEN hist
                       ELSE [hist EXCEPT !.applied = Append(@, Head(hist.undone)),
                                         !.undone = Tail(@)]
            /\ last' = [op |-> "redo", raised |-> FALSE, discarded |-> 0]
       ELSE /\ UNCHANGED <<doc, entries, _cooked_until, _actions, _index, hist>>
            /\ last' = [op |-> "redo", raised |-> TRUE, discarded |-> 0]
    /\ UNCHANGED <<_date_range, _save_point, el>>

\* document.save_to_xml(filename)
Save ==
    /\ _save_point' = set_save_point(_actions, _index)
    /\ hist' = [hist EXCEPT !.saved = hist.applied]
    /\ last' = [op |-> "save_to_xml", raised |-> FALSE, discarded |-> 0]
    /\ UNCHANGED <<doc, ovenVars, _actions, _index, el>>

Next ==
    \/ \E date \in {Today, Today + 1}, to \in {NOEDIT, <<"Food">>} : AddTransaction(date, to)
    \/ \E transactions \in (SUBSET doc.transactions) \ {{}}, to \in {<<"Food">>, <<"">>} :
          EditTransactions(transactions, to)
    \/ \E transactions \in (SUBSET doc.transactions) \ {{}} : RemoveTransactions(transactions)
    \/ \E group \in {<<>>} \cup {<<g>> : g \in doc.groups} : AddAccount(group)
    \/ \E account \in doc.accounts : EditAccount(account)
    \/ AddGroup
    \/ \E group \in doc.groups : RenameGroup(group, "Renamed")
    \/ \E group \in doc.groups : RemoveGroup(group)
    \/ AddSchedule
    \/ \E schedule \in Range(doc.schedules) : EditSchedule(schedule)
    \/ \E schedule \in Range(doc.schedules) : RemoveSchedule(schedule)
    \/ \E account \in doc.accounts : AddBudget(account)
    \/ \E budget \in Range(doc.budgets) : EditBudget(budget)
    \/ \E budget \in Range(doc.budgets) : RemoveBudget(budget)
    \/ Undo
    \/ Redo
    \/ Save

Spec == Init /\ [][Next]_vars

\* ------------------------------------------------------------ undo history
ActionIds(actions) == {actions[i].id : i \in DOMAIN actions}

\* C1: record() while actions are undone drops every action after the cursor,
\* appends the new action as the last one and leaves the cursor at the end, so
\* that can_redo() is false right afterwards; a dropped action never comes back
\* into the list, so it can never be redone.
RecordDiscardsUndone ==
    [][/\ hist'.serial # hist.serial =>
            /\ Len(_actions') = Len(hist.applied) + 1
            /\ SubSeq(_actions', 1, Len(hist.applied)) = SubSeq(_actions, 1, Len(hist.applied))
            /\ _actions'[Len(_actions')].id = hist'.serial
            /\ _index' = LastIndex
            /\ ~can_redo(_actions', _index')
            /\ ActionIds(_actions') \cap Range(hist.undone) = {}
       /\ ActionIds(_actions') \subseteq ActionIds(_actions) \cup ({hist'.serial} \ {hist.serial})
       /\ hist'.serial >= hist.serial
       /\ (last'.op = "redo" /\ ~last'.raised) =>
             PyIndex(_actions', _index').id \in ActionIds(_actions)]_vars

\* Reached: an action recorded while another was undone, after one still applied.
RecordedOverUndone ==
    /\ last.discarded > 0
    /\ Len(_actions) > 1
    /\ _index = LastIndex

\* C2: can_undo() is true exactly when some recorded action is applied (not
\* undone), can_redo() exactly when some action is undone (the cursor is not
\* at the end of the list).
CursorDecidesUndoRedo ==
    /\ can_undo(_actions, _index) <=> hist.applied # <<>>
    /\ can_redo(_actions, _index) <=> hist.undone # <<>>

\* Reached: some actions applied and some undone; and all of them undone.
SomeAppliedSomeUndone ==
    /\ hist.applied # <<>> /\ hist.undone # <<>>
    /\ can_undo(_actions, _index) /\ can_redo(_actions, _index)

\* C3: modified is true exactly when the cursor is not where it was at the last
\* set_save_point() (at the start, before any save): false right after a save
\* wherever the cursor is, false again when undo/redo brings the cursor back.
ModifiedIffCursorLeftSavePoint ==
    modified(_actions, _index, _save_point) <=> hist.applied # hist.saved

\* C5: undo() without anything to undo and redo() without anything to redo
\* raise an AssertionError and change neither the cursor, the action list nor
\* any account, group, transaction, schedule or budget.
UnavailableUndoRedoAsserts ==
    [][/\ (last'.op = "undo" /\ hist.applied = <<>>) =>
             (last'.raised /\ UNCHANGED <<doc, entries, _actions, _index, _save_point>>)
       /\ (last'.op = "redo" /\ hist.undone = <<>>) =>
             (last'.raised /\ UNCHANGED <<doc, entries, _actions, _index, _save_point>>)]_vars

\* Reached: a redo refused with actions in the list, all of them applied.
RedoRefused ==
    /\ last.op = "redo" /\ last.raised
    /\ _actions # <<>> /\ hist.undone = <<>>

\* -------------------------------------------------------- undo and the lists
\* The accounts, groups, transactions, schedules and budgets of the lists, with
\* their values.
Graph(st) ==
    [accounts |-> [a \in st.doc.accounts |-> st.doc.account[a]],
     groups |-> [g \in st.doc.groups |-> st.doc.group[g]],
     transactions |-> [t \in st.doc.transactions |-> st.doc.txn[t]],
     schedules |-> [i \in DOMAIN st.doc.schedules |-> st.doc.schedule[st.doc.schedules[i]]],
     budgets |-> [i \in DOMAIN st.doc.budgets |-> st.doc.budget[st.doc.budgets[i]]]]

\* document.undo() n times
RECURSIVE UndoTimes(_, _)
UndoTimes(st, n) == IF n = 0 THEN st ELSE UndoTimes(Document_undo(st), n - 1)

\* document.redo() n times
RECURSIVE RedoTimes(_, _)
RedoTimes(st, n) == IF n = 0 THEN st ELSE RedoTimes(Document_redo(st), n - 1)

\* C4: from any state and for any N up to the number of undoable actions,
\* undo() N times then redo() N times leaves the accounts, groups,
\* transactions, schedules and budgets, with all their values, as they were.
UndoRedoRestoresGraph ==
    \A n \in 1..Len(hist.applied) : Graph(RedoTimes(UndoTimes(Now, n), n)) = Graph(Now)

\* The transactions of the list with a split on the account.
Referencing(document, account) ==
    {t \in document.transactions : account \in affected_accounts(document.txn[t])}

Budgeted(document) == {document.budget[b].account : b \in Range(document.budgets)}

\* C6: undoing an action that added or changed transactions leaves an
\* auto-created account in the list exactly when a transaction of the list
\* still references it; redoing one leaves every account its transactions
\* reference in the list.
AutoCreatedAccountFollowsItsTransactions ==
    [][/\ (last'.op = "undo" /\ ~last'.raised /\ hist.applied # <<>>) =>
            LET action == PyIndex(_actions, _index)
                touched == action.added_transactions \cup DOMAIN action.changed_transactions
            IN \A a \in doc.accounts \ (Budgeted(doc) \cup Budgeted(doc')) :
                  (/\ doc.account[a].autocreated
                   /\ \E t \in touched : a \in affected_accounts(doc.txn[t]))
                  => (a \in doc'.accounts <=> Referencing(doc', a) # {})
       /\ (last'.op = "redo" /\ ~last'.raised) =>
             \A t \in doc'.transactions : affected_accounts(doc'.txn[t]) \subseteq doc'.accounts]_vars

\* C11: in every account's entry list, as the oven leaves it after any cooking,
\* the entries are in date order and each entry's running balance is the
\* previous entry's plus its own signed amount, the first one starting from
\* zero: balance_with_budget over all entries, balance over all but the budget
\* spawns, which leave it as it was.
RunningBalancesHaveNoGap ==
    \A a \in AccountNames : \A i \in DOMAIN entries[a]._entries :
        LET e == entries[a]._entries[i]
            prev == IF i = 1 THEN [balance |-> 0, balance_with_budget |-> 0, date |-> NoDate]
                    ELSE entries[a]._entries[i - 1]
        IN /\ prev.date <= e.date
           /\ e.balance_with_budget = prev.balance_with_budget + e.amount
           /\ e.balance = prev.balance + (IF e.is_budget THEN 0 ELSE e.amount)

\* Reached: a cook from a date that kept an entry and added the next one of the
\* same account after it, the kept one with a balance to carry over.
BalanceCarriedOverCookedBoundary ==
    /\ last.op \in {"cook", "date_range"}
    /\ last.prev_op \in {"cook", "date_range"}
    /\ \E i \in DOMAIN entries["Food"]._entries :
          /\ i > 1
          /\ entries["Food"]._entries[i - 1].date < last.prev_until
          /\ entries["Food"]._entries[i].date >= last.prev_until
          /\ entries["Food"]._entries[i - 1].balance # 0
          /\ entries["Food"]._entries[i].amount # 0
          /\ last.op = "date_range" /\ last.prev_until < last.until

\* ============================================================ the schedules
\* A schedule's exceptions, global changes and deletions, the spawns it gives,
\* and the document commands that act on a spawn.

\* The schedule slots up to `end`, whatever the exceptions: the dates of the date
\* counter, cut at the stop date.
Slots(schedule, end) ==
    LET stop == IF schedule.stop_date # NoDate /\ schedule.stop_date + 1 < end
                THEN schedule.stop_date + 1 ELSE end
    IN Range(DateCounter(schedule.ref.date, schedule.repeat_type, schedule.repeat_every, stop))

\* The spawns get_spawns gives for one slot
SpawnsAt(id, schedule, end, slot) ==
    SelectSeq(Recurrence_get_spawns(id, schedule, end), LAMBDA sp : sp.recurrence_date = slot)

\* Recurrence.delete_at(date): a deletion is an exception holding nothing
Recurrence_delete_at(schedule, date) ==
    [schedule EXCEPT !.date2exception = DictSet(@, date, <<>>)]

\* Recurrence.delete(spawn)
Recurrence_delete(schedule, spawn) == Recurrence_delete_at(schedule, spawn.recurrence_date)

\* Recurrence.change_globally(spawn): the edited spawn is the global change of
\* its schedule date
Recurrence_change_globally(schedule, spawn) ==
    [schedule EXCEPT !.date2globalchange = DictSet(@, spawn.recurrence_date, spawn)]

\* Recurrence.stop_before(spawn): the schedule stops the day before the spawn's
\* schedule date when that date is the next one of the running schedule; a date
\* the schedule does not reach any more only gets a deletion
Recurrence_stop_before(schedule, spawn) ==
    IF spawn.recurrence_date \in Slots(schedule, spawn.recurrence_date + 1)
    THEN [schedule EXCEPT !.stop_date = spawn.recurrence_date - 1]
    ELSE Recurrence_delete_at(schedule, spawn.recurrence_date)

\* Spawn.materialize(): a real transaction with the spawn's date and splits;
\* number stands for the new object
Spawn_materialize(spawn, number) ==
    [Transaction(spawn.date) EXCEPT !.key = <<1, number, NoDate>>, !.splits = spawn.splits]

\* find_schedule_of_ref(ref, schedules): <<>> for None
find_schedule_of_ref(ref, schedules) ==
    IF ref \in Range(schedules) THEN <<ref>> ELSE <<>>

\* ---------------------------------------------------------------- the loader
\* A RecurrenceInfo as the parser leaves it: the reference transaction, the
\* repeat settings, and the <exception> and <change> elements by their date
\* attribute, an exception without transaction element holding nothing.
RecurrenceInfo(ref, repeat_type, repeat_every, date2exception, date2globalchange) ==
    [transaction_info |-> ref, repeat_type |-> repeat_type, repeat_every |-> repeat_every,
     stop_date |-> NoDate, date2exception |-> date2exception,
     date2globalchange |-> date2globalchange]

\* Loader.load, the schedules, each exception and change a Spawn whose schedule
\* date is the date of its transaction
Loader_load_by_effective_date(id, info) ==
    [NewSchedule(info.transaction_info, info.repeat_type, info.repeat_every, info.stop_date)
     EXCEPT !.date2exception =
                [d \in DOMAIN info.date2exception |->
                    IF info.date2exception[d] = <<>> THEN <<>>
                    ELSE <<Spawn(id, info.date2exception[d][1], info.date2exception[d][1].date,
                                 info.date2exception[d][1].date, 2)>>],
            !.date2globalchange =
                [d \in DOMAIN info.date2globalchange |->
                    Spawn(id, info.date2globalchange[d], info.date2globalchange[d].date,
                          info.date2globalchange[d].date, 2)]]

\* Loader.load, the schedules: Recurrence(ref, repeat_type, repeat_every) with
\* its stop date, each exception and change a Spawn of the date attribute, a
\* missing exception transaction a deletion
Loader_load(id, info) ==
    [NewSchedule(info.transaction_info, info.repeat_type, info.repeat_every, info.stop_date)
     EXCEPT !.date2exception =
                [d \in DOMAIN info.date2exception |->
                    IF info.date2exception[d] = <<>> THEN <<>>
                    ELSE <<Spawn(id, info.date2exception[d][1], d,
                                 info.date2exception[d][1].date, 2)>>],
            !.date2globalchange =
                [d \in DOMAIN info.date2globalchange |->
                    Spawn(id, info.date2globalchange[d], d, info.date2globalchange[d].date, 2)]]

\* The three steps of a materialization, the schedule stopped before the spawn
\* instead of the one occurrence deleted.
_materialize_and_stop(st, spawn) ==
    LET Added(s, number) == [s EXCEPT !.doc = TransactionList_add(@, number, FALSE)]
        Made(number) ==
            Added([st EXCEPT !.doc.schedule[spawn.ref] = Recurrence_stop_before(@, spawn),
                             !.doc.txn = DictSet(@, number, Spawn_materialize(spawn, number))],
                  number)
    IN Made(Cardinality(DOMAIN st.doc.txn) + 1)

\* The three steps of a materialization without the first: no deletion is
\* recorded on the schedule.
_materialize_without_deleting(st, spawn) ==
    LET Added(s, number) == [s EXCEPT !.doc = TransactionList_add(@, number, FALSE)]
        Made(number) ==
            Added([st EXCEPT !.doc.txn = DictSet(@, number, Spawn_materialize(spawn, number))],
                  number)
    IN Made(Cardinality(DOMAIN st.doc.txn) + 1)

\* The three steps of a materialization, the spawn itself added to the list
\* instead of its materialization.
_materialize_listing_the_spawn(st, spawn) ==
    LET Added(s, number) == [s EXCEPT !.doc = TransactionList_add(@, number, FALSE)]
        Made(number) ==
            Added([st EXCEPT !.doc.schedule[spawn.ref] = Recurrence_delete(@, spawn),
                             !.doc.txn = DictSet(@, number, spawn)],
                  number)
    IN Made(Cardinality(DOMAIN st.doc.txn) + 1)

\* ----------------------------------------------- the document and its spawns
\* schedule.delete(spawn), spawn.materialize(), self.transactions.add(materialized):
\* the three steps every materialization in the document is made of
_materialize(st, spawn) ==
    LET Added(s, number) == [s EXCEPT !.doc = TransactionList_add(@, number, FALSE)]
        Made(number) ==
            Added([st EXCEPT !.doc.schedule[spawn.ref] = Recurrence_delete(@, spawn),
                             !.doc.txn = DictSet(@, number, Spawn_materialize(spawn, number))],
                  number)
    IN Made(Cardinality(DOMAIN st.doc.txn) + 1)

\* Document._change_transaction of a spawn, the schedule given the spawn as it
\* was before the change.
_change_spawn_as_it_was(st, spawn, global_scope, date, from_, to, amt) ==
    IF global_scope
    THEN [st EXCEPT !.doc.schedule[spawn.ref] = Recurrence_change_globally(@, spawn)]
    ELSE _materialize(st, change(spawn, date, from_, to, amt))

\* Document._change_transaction of a spawn
_change_spawn(st, spawn, global_scope, date, from_, to, amt) ==
    LET Changed(changed) ==
            IF global_scope
            THEN [st EXCEPT !.doc.schedule[spawn.ref] = Recurrence_change_globally(@, changed)]
            ELSE _materialize(st, changed)
    IN Changed(change(spawn, date, from_, to, amt))

\* Action.change_transactions, the transactions all spawns: a copy of the
\* schedule of each
RECURSIVE Action_change_spawns(_, _, _)
Action_change_spawns(action, spawns, document) ==
    IF spawns = <<>> THEN action
    ELSE Action_change_spawns(
             IF find_schedule_of_ref(Head(spawns).ref, document.schedules) = <<>> THEN action
             ELSE Action_change_schedule(action, Head(spawns).ref, document),
             Tail(spawns), document)

\* Document.change_transactions([spawn], date, amount) with the answer to the
\* scope query, from_ and to left at NOEDIT
change_spawn(st, id, spawn, global_scope, date, amt) ==
    LET min_date == SetMin({spawn.date} \cup Range(date))
        Cooked(s) == clean_empty_categories(_cook(s, min_date))
        Changed(s) == Cooked(_change_spawn(s, spawn, global_scope, date, NOEDIT, NOEDIT, amt))
    IN Changed(record(st, Action_change_spawns(Action(id, "Change transaction"),
                                               <<spawn>>, st.doc)))

RECURSIVE DeleteEachSpawn(_, _, _)

\* The loop of Document.delete_transactions over spawns, each one deleted alone
\* whatever the scope.
DeleteEachSpawnAlone(st, spawns, global_scope) ==
    IF spawns = <<>> THEN st
    ELSE DeleteEachSpawn(
             [st EXCEPT !.doc.schedule[Head(spawns).ref] = Recurrence_delete(@, Head(spawns))],
             Tail(spawns), FALSE)

\* The loop of Document.delete_transactions over spawns
DeleteEachSpawn(st, spawns, global_scope) ==
    IF spawns = <<>> THEN st
    ELSE DeleteEachSpawn(
             [st EXCEPT !.doc.schedule[Head(spawns).ref] =
                 IF global_scope THEN Recurrence_stop_before(@, Head(spawns))
                 ELSE Recurrence_delete(@, Head(spawns))],
             Tail(spawns), global_scope)

\* Document.delete_transactions(transactions), the transactions all spawns,
\* with the answer to the scope query
delete_spawns(st, id, spawns, global_scope) ==
    LET min_date == SetMin({spawns[i].date : i \in DOMAIN spawns})
        Cooked(s) == clean_empty_categories(_cook(s, min_date))
        Deleted(s) == Cooked(DeleteEachSpawn(s, spawns, global_scope))
    IN Deleted(record(st, Action_change_spawns(Action(id, "Remove transaction"),
                                               spawns, st.doc)))

\* Document.materialize_spawn(spawn)
materialize_spawn(st, id, spawn) ==
    LET number == Cardinality(DOMAIN st.doc.txn) + 1
        action == [Action_change_schedule(Action(id, "Materialize transaction"),
                                          spawn.ref, st.doc)
                   EXCEPT !.added_transactions = {number}]
        Cooked(s) == _cook(s, spawn.date)
    IN Cooked(_materialize(record(st, action), spawn))

\* Document._reconcile_spawn_split(entry, reconciliation_date), the entry that
\* of the split at split_index of the spawn
_reconcile_spawn_split(st, spawn, split_index, reconciliation_date) ==
    LET number == Cardinality(DOMAIN st.doc.txn) + 1
        Reconciled(s) ==
            [s EXCEPT !.doc.txn[number].splits[split_index].reconciliation_date =
                          reconciliation_date]
    IN Reconciled(_materialize(st, spawn))

\* Document.toggle_entries_reconciled([entry]), the entry that of the split at
\* split_index of the spawn
toggle_entries_reconciled(st, id, spawn, split_index) ==
    LET number == Cardinality(DOMAIN st.doc.txn) + 1
        newvalue == spawn.splits[split_index].reconciliation_date = NoDate
        Cooked(s) == _cook(s, spawn.date)
        Toggled(s) ==
            IF newvalue
            THEN [_reconcile_spawn_split(s, spawn, split_index, spawn.date)
                  EXCEPT !._actions[Len(s._actions)].added_transactions = @ \cup {number}]
            ELSE s
    IN Cooked(Toggled(record(st, Action_change_spawns(Action(id, "Change reconciliation"),
                                                      <<spawn>>, st.doc))))

\* ===================================================== the schedule commands
\* A document loaded from a file with one schedule, whose spawns are then
\* edited, deleted, materialized and reconciled, for this occurrence or for all
\* the following ones, and whose repeat settings are changed.

MaxScheduleDate == 6
MaxScheduleCommands == 2

\* The schedule's reference transaction, and what an <exception> or <change>
\* element holds: the transaction at another date, with another amount.
ScheduledTransaction(date, amt) == TwoWay(0, date, "New account", "Food", amt, FALSE)

LoadedExceptions ==
    {EmptyDict}
    \cup {(d :> <<>>) : d \in {Today + 2, Today + 3}}
    \cup {(d :> <<ScheduledTransaction(d + 1, 20)>>) : d \in {Today + 2, Today + 3}}

LoadedChanges == {EmptyDict, (Today + 2 :> ScheduledTransaction(Today + 2, 30))}

LoadedRecurrenceInfos ==
    {RecurrenceInfo(ScheduledTransaction(Today + 1, 10), repeat_type, 1, x, c) :
        repeat_type \in RepeatTypes, x \in LoadedExceptions, c \in LoadedChanges}

\* What the last command was, the spawns it was given and the date and the
\* amount or repeat_every it set, and the command before it with its spawns.
ScheduleOp(op, spawns, global_scope, date, amt, repeat_every) ==
    [op |-> op, spawns |-> spawns, global_scope |-> global_scope, date |-> date, amt |-> amt,
     repeat_every |-> repeat_every, prev_op |-> last.op, prev_spawns |-> last.spawns]

\* Document.load_from_xml: the loader's accounts and schedules, cooked
InitSchedule ==
    /\ \E info \in LoadedRecurrenceInfos :
          doc = [NewDocument EXCEPT
                    !.accounts = AccountNames,
                    !.account = [a \in AccountNames |->
                                    NewAccount(IF a = "Food" THEN "expense" ELSE "asset", FALSE)],
                    !.schedules = <<1>>,
                    !.schedule = (1 :> Loader_load(1, info))]
    /\ entries = Oven_cook([a \in AccountNames |-> NewEntryList], doc, NoDate, MaxScheduleDate)
    /\ _cooked_until = MaxScheduleDate
    /\ _date_range = <<Today, MaxScheduleDate>>
    /\ _actions = <<>> /\ _index = LastIndex /\ _save_point = <<>>
    /\ el = NewEntryList
    /\ last = [op |-> "load_from_xml", spawns |-> <<>>, global_scope |-> FALSE,
               date |-> NOEDIT, amt |-> NOEDIT, repeat_every |-> NOEDIT,
               prev_op |-> "init", prev_spawns |-> <<>>]
    /\ hist = NoHistory

\* A command on spawns that left the document as st.
Commanded(op, spawns, global_scope, date, amt, repeat_every, st) ==
    /\ hist.serial < MaxScheduleCommands
    /\ Becomes(st)
    /\ hist' = [hist EXCEPT !.serial = @ + 1, !.applied = Append(@, hist.serial + 1)]
    /\ last' = ScheduleOp(op, spawns, global_scope, date, amt, repeat_every)
    /\ UNCHANGED <<_date_range, _save_point, el>>

\* The spawns on display: those of the listed schedules up to the range's end
ShownSpawns ==
    UNION {Range(Recurrence_get_spawns(x, doc.schedule[x], _date_range[2])) :
              x \in Range(doc.schedules)}

\* document.change_transactions([spawn], date=, amount=), the scope query answered
EditSpawn(spawn, global_scope, date, amt) ==
    Commanded("change_transactions", <<spawn>>, global_scope, date, amt, NOEDIT,
              change_spawn(Now, NextAction, spawn, global_scope, date, amt))

\* document.delete_transactions(spawns), the scope query answered
DeleteSpawns(spawns, global_scope) ==
    Commanded("delete_transactions", spawns, global_scope, NOEDIT, NOEDIT, NOEDIT,
              delete_spawns(Now, NextAction, spawns, global_scope))

\* document.materialize_spawn(spawn)
MaterializeSpawn(spawn) ==
    Commanded("materialize_spawn", <<spawn>>, FALSE, NOEDIT, NOEDIT, NOEDIT,
              materialize_spawn(Now, NextAction, spawn))

\* document.toggle_entries_reconciled([entry]) on the first entry of a spawn
ToggleSpawnReconciled(spawn) ==
    Commanded("toggle_entries_reconciled", <<spawn>>, FALSE, NOEDIT, NOEDIT, NOEDIT,
              toggle_entries_reconciled(Now, NextAction, spawn, 1))

\* document.change_transactions([transaction], date=) of a real transaction
MoveTransaction(transaction) ==
    Commanded("move_transaction", <<>>, FALSE, <<doc.txn[transaction].date + 1>>, NOEDIT, NOEDIT,
              change_transactions(Now, NextAction, <<transaction>>,
                                  <<doc.txn[transaction].date + 1>>, NOEDIT, NOEDIT, NOEDIT))

\* document.change_schedule(schedule, new_ref, repeat_type, repeat_every, stop_date):
\* the start moved by shift days, the schedule repeating every repeat_every
RescheduleSchedule(schedule, shift, repeat_every) ==
    Commanded("change_schedule", <<>>, FALSE, NOEDIT, NOEDIT, <<repeat_every>>,
              change_schedule(Now, NextAction, schedule,
                              [doc.schedule[schedule].ref EXCEPT !.date = @ + shift],
                              doc.schedule[schedule].repeat_type, repeat_every,
                              doc.schedule[schedule].stop_date))

NextSchedule ==
    \/ \E spawn \in ShownSpawns, global_scope \in BOOLEAN :
          \E edit \in {<<NOEDIT, <<amount(spawn) + 15>>>>, <<<<spawn.date + 1>>, NOEDIT>>,
                       <<<<spawn.date + 1>>, <<amount(spawn) + 15>>>>} :
             EditSpawn(spawn, global_scope, edit[1], edit[2])
    \/ \E spawn \in ShownSpawns, global_scope \in BOOLEAN : DeleteSpawns(<<spawn>>, global_scope)
    \/ \E first \in ShownSpawns, second \in ShownSpawns :
          /\ first.recurrence_date < second.recurrence_date
          /\ DeleteSpawns(<<first, second>>, TRUE)
    \/ \E spawn \in ShownSpawns : MaterializeSpawn(spawn)
    \/ \E spawn \in ShownSpawns : ToggleSpawnReconciled(spawn)
    \/ \E transaction \in doc.transactions : MoveTransaction(transaction)
    \/ \E schedule \in Range(doc.schedules) :
          \E setting \in {<<0, 0>>, <<0, 2>>, <<1, 1>>} :
             RescheduleSchedule(schedule, setting[1], setting[2])

SpecSchedule == InitSchedule /\ [][NextSchedule]_vars

\* --------------------------------------------------- exceptions and changes
\* C12: every key of a schedule's exception map and global-change map is the
\* schedule date (recurrence_date) of the spawn filed under it, whatever its
\* effective date has become; and the spawn just changed for all following
\* occurrences is found under its schedule date.
KeysAreRecurrenceDates ==
    /\ \A x \in DOMAIN doc.schedule :
          /\ \A d \in DOMAIN doc.schedule[x].date2exception :
                doc.schedule[x].date2exception[d] # <<>>
                => doc.schedule[x].date2exception[d][1].recurrence_date = d
          /\ \A d \in DOMAIN doc.schedule[x].date2globalchange :
                doc.schedule[x].date2globalchange[d].recurrence_date = d
    /\ (last.op = "change_transactions" /\ last.global_scope)
       => last.spawns[1].recurrence_date
             \in DOMAIN doc.schedule[last.spawns[1].ref].date2globalchange

\* Reached: a loaded exception whose date was moved, and a spawn just changed
\* for all following occurrences, its date moved, filed under its schedule date.
MovedSpawnsUnderTheirSlot ==
    /\ \E d \in DOMAIN doc.schedule[1].date2exception :
          /\ doc.schedule[1].date2exception[d] # <<>>
          /\ doc.schedule[1].date2exception[d][1].date # d
    /\ last.op = "change_transactions" /\ last.global_scope
    /\ \E d \in DOMAIN doc.schedule[1].date2globalchange :
          /\ d = last.spawns[1].recurrence_date
          /\ doc.schedule[1].date2globalchange[d].date # d

\* Every slot of every listed schedule gives one spawn, a deleted slot none.
OncePerSlot(document, end) ==
    \A x \in Range(document.schedules) : \A slot \in Slots(document.schedule[x], end) :
        Len(SpawnsAt(x, document.schedule[x], end, slot))
          = IF slot \in DOMAIN document.schedule[x].date2exception
               /\ document.schedule[x].date2exception[slot] = <<>>
            THEN 0 ELSE 1

\* The spawns of every slot but those of `but` are the same in both documents.
SameSpawnsBut(before, after, end, but) ==
    \A x \in Range(before.schedules) : \A slot \in Slots(before.schedule[x], end) \ but :
        SpawnsAt(x, after.schedule[x], end, slot) = SpawnsAt(x, before.schedule[x], end, slot)

\* C13: materializing a spawn (by materialize_spawn, or by changing the one
\* occurrence), and then moving the date of the resulting transaction, leaves
\* the spawn of every other schedule date as it was; get_spawns afterwards gives
\* one spawn for every schedule date up to the horizon that is not deleted,
\* and never two.
MaterializedAndMovedKeepsOtherSpawns ==
    [][/\ (last'.op = "materialize_spawn" \/ (last'.op = "change_transactions" /\ ~last'.global_scope))
          => /\ SameSpawnsBut(doc, doc', _date_range[2], {last'.spawns[1].recurrence_date})
             /\ OncePerSlot(doc', _date_range[2])
       /\ (last'.op = "move_transaction" /\ last.op = "materialize_spawn")
          => /\ SameSpawnsBut(doc, doc', _date_range[2], {})
             /\ OncePerSlot(doc', _date_range[2])]_vars

\* Reached: a spawn of a monthly schedule materialized, the transaction then
\* moved to another date, another schedule date still spawning.
MaterializedThenMoved ==
    /\ last.op = "move_transaction" /\ last.prev_op = "materialize_spawn"
    /\ doc.schedule[1].repeat_type = "monthly"
    /\ \E t \in doc.transactions : doc.txn[t].date # last.prev_spawns[1].date
    /\ \E slot \in Slots(doc.schedule[1], _date_range[2]) :
          /\ slot # last.prev_spawns[1].recurrence_date
          /\ SpawnsAt(1, doc.schedule[1], _date_range[2], slot) # <<>>

\* C14: for every schedule date up to the horizon, get_spawns gives nothing
\* when the date is deleted, the stored exception alone when the date has one,
\* and one spawn derived for that date alone when it has neither.
DeletedExceptedOrDerived ==
    \A x \in Range(doc.schedules) : \A slot \in Slots(doc.schedule[x], _date_range[2]) :
        LET given == SpawnsAt(x, doc.schedule[x], _date_range[2], slot)
            exceptions == doc.schedule[x].date2exception
        IN IF slot \in DOMAIN exceptions
           THEN given = exceptions[slot]
           ELSE /\ Len(given) = 1
                /\ given[1].key = <<2, x, slot>>
                /\ given[1].date = slot
                /\ \A d \in DOMAIN exceptions : exceptions[d] # <<given[1]>>

\* Reached: a schedule with a deleted date, a date with an exception whose date
\* and amount were edited, and a date with neither, all three up to the horizon.
DeletedExceptedAndDerivedSlots ==
    \E deleted, excepted, plain \in Slots(doc.schedule[1], _date_range[2]) :
        /\ deleted \in DOMAIN doc.schedule[1].date2exception
        /\ doc.schedule[1].date2exception[deleted] = <<>>
        /\ excepted \in DOMAIN doc.schedule[1].date2exception
        /\ doc.schedule[1].date2exception[excepted] # <<>>
        /\ doc.schedule[1].date2exception[excepted][1].date # excepted
        /\ plain \notin DOMAIN doc.schedule[1].date2exception
        /\ last.op = "delete_transactions"

\* C15: after a spawn of schedule date D is changed for all following
\* occurrences, every un-excepted spawn before D is the one it was (derived
\* from the reference transaction or the latest earlier global change), and
\* every un-excepted spawn on or after D has the splits of the changed spawn,
\* up to the next global change after D, from which on the spawns are again the
\* ones they were; before the first global change they have the splits of the
\* reference transaction.
GlobalChangeFromItsDateOn ==
    [][(last'.op = "change_transactions" /\ last'.global_scope)
       => LET x == last'.spawns[1].ref
              D == last'.spawns[1].recurrence_date
              template == change(last'.spawns[1], last'.date, NOEDIT, NOEDIT, last'.amt)
              changes == DOMAIN doc'.schedule[x].date2globalchange
          IN \A slot \in Slots(doc'.schedule[x], _date_range[2])
                           \ DOMAIN doc'.schedule[x].date2exception :
                LET given == SpawnsAt(x, doc'.schedule[x], _date_range[2], slot)
                    was == SpawnsAt(x, doc.schedule[x], _date_range[2], slot)
                IN /\ Len(given) = 1
                   /\ (slot < D \/ \E d \in changes : D < d /\ d <= slot) => given = was
                   /\ (slot >= D /\ ~\E d \in changes : D < d /\ d <= slot)
                         => given[1].splits = template.splits
                   /\ (~\E d \in changes : d <= slot)
                         => given[1].splits = doc'.schedule[x].ref.splits]_vars

\* Reached: a global change at a date after an earlier global change, three
\* un-excepted spawns with three amounts: one before both, of the reference
\* transaction, one between them, of the earlier change, one from the later
\* change on.
TwoGlobalChangesInForce ==
    /\ last.op = "change_transactions" /\ last.global_scope /\ last.amt # NOEDIT
    /\ \E D \in DOMAIN doc.schedule[1].date2globalchange :
          /\ D < last.spawns[1].recurrence_date
          /\ \E s1, s2, s3 \in Slots(doc.schedule[1], _date_range[2])
                                 \ DOMAIN doc.schedule[1].date2exception :
                /\ s1 < D /\ D <= s2 /\ s2 < last.spawns[1].recurrence_date
                /\ last.spawns[1].recurrence_date <= s3
                /\ amount(SpawnsAt(1, doc.schedule[1], _date_range[2], s1)[1]) = 10
                /\ amount(SpawnsAt(1, doc.schedule[1], _date_range[2], s2)[1]) = 30
                /\ amount(SpawnsAt(1, doc.schedule[1], _date_range[2], s3)[1]) = 45

\* The keys of the transactions and spawns that have an entry in some account.
CookedKeys(lists) ==
    UNION {{lists[a]._entries[i].txn : i \in DOMAIN lists[a]._entries} : a \in AccountNames}

\* C16: a materialization (materialize_spawn, reconciling a spawn's entry, or
\* changing one occurrence only) adds exactly one transaction to the list, a
\* real one without link to the schedule; it records a deletion for the spawn's
\* schedule date, so that get_spawns gives no spawn for that date and no
\* account has an entry of such a spawn, while every other schedule date gives
\* the spawn it gave; and whatever happens later, a deleted schedule date has no
\* spawn and no entry.
MaterializedOnceAndNotRespawned ==
    [][/\ (\/ last'.op \in {"materialize_spawn", "toggle_entries_reconciled"}
           \/ (last'.op = "change_transactions" /\ ~last'.global_scope))
          => LET x == last'.spawns[1].ref
                 D == last'.spawns[1].recurrence_date
             IN /\ doc.transactions \subseteq doc'.transactions
                /\ Cardinality(doc'.transactions \ doc.transactions) = 1
                /\ \A t \in doc'.transactions \ doc.transactions :
                      /\ doc'.txn[t].txntype = 1
                      /\ doc'.txn[t].ref = 0 /\ doc'.txn[t].recurrence_date = NoDate
                      /\ doc'.txn[t].key \in CookedKeys(entries')
                /\ D \in DOMAIN doc'.schedule[x].date2exception
                /\ doc'.schedule[x].date2exception[D] = <<>>
                /\ SameSpawnsBut(doc, doc', _date_range[2], {D})
       /\ \A x \in Range(doc'.schedules) : \A d \in DOMAIN doc'.schedule[x].date2exception :
             doc'.schedule[x].date2exception[d] = <<>>
             => /\ SpawnsAt(x, doc'.schedule[x], _date_range[2], d) = <<>>
                /\ <<2, x, d>> \notin CookedKeys(entries')]_vars

\* Reached: a spawn materialized by materialize_spawn, its transaction cooked,
\* a later schedule date still giving its spawn and a command made after it.
MaterializedAndStillSpawning ==
    /\ last.prev_op = "materialize_spawn"
    /\ last.op \in {"change_schedule", "move_transaction", "change_transactions"}
    /\ <<2, 1, last.prev_spawns[1].recurrence_date>> \notin CookedKeys(entries)
    /\ \E t \in doc.transactions : doc.txn[t].key \in CookedKeys(entries)
    /\ \E slot \in Slots(doc.schedule[1], _date_range[2]) :
          /\ slot > last.prev_spawns[1].recurrence_date
          /\ <<2, 1, slot>> \in CookedKeys(entries)

\* C17: deleting spawns for all following occurrences (stop_before on each, in
\* the order given) removes no occurrence scheduled before the first of them:
\* the first one's schedule date D is the next date of the running schedule, and
\* the stop date becomes the day before D; a further one, which the stopped
\* schedule does not reach any more, only gets a deletion; every spawn of a
\* schedule date before D is given by get_spawns as before.
StopBeforeKeepsEarlierOccurrences ==
    [][(last'.op = "delete_transactions" /\ last'.global_scope)
       => LET x == last'.spawns[1].ref
              D == last'.spawns[1].recurrence_date
          IN /\ doc'.schedule[x].stop_date = D - 1
             /\ \A slot \in Slots(doc.schedule[x], _date_range[2]) :
                   slot < D => /\ slot \in Slots(doc'.schedule[x], _date_range[2])
                               /\ SpawnsAt(x, doc'.schedule[x], _date_range[2], slot)
                                    = SpawnsAt(x, doc.schedule[x], _date_range[2], slot)
             /\ \A i \in 2..Len(last'.spawns) :
                   /\ last'.spawns[i].recurrence_date
                         \in DOMAIN doc'.schedule[x].date2exception
                   /\ doc'.schedule[x].date2exception[last'.spawns[i].recurrence_date] = <<>>
             /\ \A d \in DOMAIN doc'.schedule[x].date2exception :
                   d \in DOMAIN doc.schedule[x].date2exception
                   \/ \E i \in 2..Len(last'.spawns) : d = last'.spawns[i].recurrence_date
             /\ \A d \in DOMAIN doc.schedule[x].date2exception :
                   d \in DOMAIN doc'.schedule[x].date2exception
                   /\ (d # D /\ \A i \in 2..Len(last'.spawns) : d # last'.spawns[i].recurrence_date)
                      => doc'.schedule[x].date2exception[d] = doc.schedule[x].date2exception[d]]_vars

\* Reached: two spawns deleted for all following occurrences at once, the
\* schedule stopped before the first, the second given a deletion, an earlier
\* occurrence still spawning.
StoppedWithEarlierOccurrenceLeft ==
    /\ last.op = "delete_transactions" /\ last.global_scope /\ Len(last.spawns) = 2
    /\ doc.schedule[1].stop_date = last.spawns[1].recurrence_date - 1
    /\ last.spawns[2].recurrence_date \in DOMAIN doc.schedule[1].date2exception
    /\ \E slot \in Slots(doc.schedule[1], _date_range[2]) :
          /\ slot < last.spawns[1].recurrence_date
          /\ SpawnsAt(1, doc.schedule[1], _date_range[2], slot) # <<>>
          /\ <<2, 1, slot>> \in CookedKeys(entries)

\* C18: change_schedule given a repeat_every of zero or less records no Action
\* and leaves the schedule with the repeat settings it had; no schedule ever
\* has a repeat_every of zero or less.
InvalidScheduleChangeRejected ==
    [][/\ (last'.op = "change_schedule" /\ last'.repeat_every[1] <= 0)
          => /\ _actions' = _actions
             /\ \A x \in DOMAIN doc.schedule :
                   /\ doc'.schedule[x].repeat_every = doc.schedule[x].repeat_every
                   /\ doc'.schedule[x].repeat_type = doc.schedule[x].repeat_type
       /\ \A x \in DOMAIN doc'.schedule : doc'.schedule[x].repeat_every > 0]_vars

\* The dates the schedule's date counter produces up to `end`, whatever the
\* stop date.
CounterDates(schedule, end) ==
    Range(DateCounter(schedule.ref.date, schedule.repeat_type, schedule.repeat_every, end))

OvenTransactions(document, until_date) ==
    ListedTransactions(document)
    \cup Range(ScheduleSpawns(document.schedules, document.schedule, until_date))

\* The budget periods that get a spawn up to until_date: their first days.
BudgetPeriods(until_date) ==
    {d \in Range(DateCounter(Today, "monthly", 1, until_date)) :
        inc_date(d, "monthly", 1) - 1 > Today}

\* C20: in one BudgetList.get_spawns computation the transactions of a period
\* reduce the budget spawn of one budget of their account only: the first
\* budget's spawn is left with its amount less theirs (nothing when they reach
\* it), every later budget of the account keeps its whole amount, so that the
\* remaining amounts together are less by the transactions' amount once. The
\* budget entries cooked for the period carry these amounts.
EachTransactionConsumedOnce ==
    LET Remaining(given, a, d) ==
            SeqSum([i \in DOMAIN given |->
                      IF given[i].recurrence_date = d /\ a \in affected_accounts(given[i])
                      THEN amount(given[i]) ELSE 0])
        Cooked(a, d) ==
            SeqSum([i \in DOMAIN entries[a]._entries |->
                      IF /\ entries[a]._entries[i].is_budget
                         /\ entries[a]._entries[i].date = inc_date(d, "monthly", 1) - 1
                      THEN Abs(entries[a]._entries[i].amount) ELSE 0])
        BudgetedBy(on) == SeqSum([i \in DOMAIN on |-> doc.budget[on[i]].amount])
        Spent(txns, a, d) ==
            SumForAccount({t \in txns : /\ a \in affected_accounts(t)
                                        /\ d <= t.date /\ t.date <= inc_date(d, "monthly", 1) - 1}, a)
        Once(given, on, spent, a, d) ==
            /\ BudgetedBy(on) - Remaining(given, a, d)
                   = IF spent < doc.budget[on[1]].amount THEN spent ELSE doc.budget[on[1]].amount
            /\ \A i \in DOMAIN given :
                  (given[i].recurrence_date = d /\ given[i].ref # on[1])
                     => amount(given[i]) = doc.budget[given[i].ref].amount
            /\ _cooked_until = _date_range[2] => Cooked(a, d) = Remaining(given, a, d)
        All(given, txns) ==
            \A a \in {"Food"} : \A d \in BudgetPeriods(_date_range[2]) :
                LET on == SelectSeq(doc.budgets, LAMBDA b : doc.budget[b].account = a)
                IN on # <<>> => Once(given, on, Spent(txns, a, d), a, d)
        With(txns) ==
            All(BudgetList_get_spawns(doc.budgets, doc.budget, doc.account, _date_range[2], txns),
                txns)
    IN With(OvenTransactions(doc, _date_range[2]))

\* Reached: two budgets on the expense account cooked with a transaction of 20
\* in a period; the period's budget entries come to 50 - 20.
TwoBudgetsShareOneTransaction ==
    /\ last.op = "cook" /\ last.date = NoDate
    /\ doc.budgets = <<1, 2>> /\ doc.schedules = <<>>
    /\ 2 \in doc.transactions /\ doc.txn[2].date = Today + MonthDays
    /\ \E i \in DOMAIN entries["Food"]._entries :
          /\ entries["Food"]._entries[i].is_budget
          /\ entries["Food"]._entries[i].txn = <<3, 1, Today + MonthDays>>
          /\ Abs(entries["Food"]._entries[i].amount) = 30 - 20
    /\ \E i \in DOMAIN entries["Food"]._entries :
          /\ entries["Food"]._entries[i].is_budget
          /\ entries["Food"]._entries[i].txn = <<3, 2, Today + MonthDays>>
          /\ Abs(entries["Food"]._entries[i].amount) = 20

\* =============================================================== the budgets
\* One budget of a loaded document asked for its spawns, for any start date of
\* the budget list (before today too), period and horizon, and then for the
\* amount it budgets over a date range.
MaxHorizon == 7

\* BudgetList.start_date as loaded: any day, before today as well.
StartDates == {-2, -1, Today, Today + 1, Today + 2}

BudgetedDocuments ==
    {d \in LoadedDocuments : d.budgets = <<1>> /\ d.schedules = <<>>}

QueriedRanges ==
    {r \in (1..MaxHorizon) \X (1..MaxHorizon) : r[1] <= r[2]}

BudgetOp(op, _previous_spawns, date_range, value) ==
    [last EXCEPT !.op = op, !._previous_spawns = _previous_spawns,
                 !.date_range = date_range, !.amount = value]

\* The budget list as loaded: its start date, its period; and the horizon the
\* budget is about to be asked its spawns for.
InitBudget ==
    /\ doc \in BudgetedDocuments
    /\ NewOvenAndUndoer
    /\ el = NewEntryList
    /\ \E start_date \in StartDates, repeat_type \in RepeatTypes, repeat_every \in {1, 2},
          end \in 1..MaxHorizon :
          last = [op |-> "init", start_date |-> start_date, repeat_type |-> repeat_type,
                  repeat_every |-> repeat_every, end |-> end, _previous_spawns |-> <<>>,
                  date_range |-> <<NoDate, NoDate>>, amount |-> 0]
    /\ hist = NoHistory

\* budget.get_spawns(start_date, repeat_type, repeat_every, end, transactions, set())
GetSpawns ==
    /\ last.op = "init"
    /\ last' = BudgetOp("get_spawns",
                        Budget_get_spawns(1, doc.budget[1], doc.account, last.start_date,
                                          last.repeat_type, last.repeat_every, last.end,
                                          ListedTransactions(doc), {}).spawns,
                        <<NoDate, NoDate>>, 0)
    /\ UNCHANGED <<doc, ovenVars, undoVars, el, hist>>

\* budget.amount_for_date_range(date_range, currency), get_spawns called before
AmountForDateRange(date_range) ==
    /\ last.op # "init"
    /\ last' = BudgetOp("amount_for_date_range", last._previous_spawns, date_range,
                        Budget_amount_for_date_range(doc.budget[1], last._previous_spawns,
                                                     date_range))
    /\ UNCHANGED <<doc, ovenVars, undoVars, el, hist>>

NextBudget ==
    \/ GetSpawns
    \/ \E date_range \in QueriedRanges : AmountForDateRange(date_range)

SpecBudget == InitBudget /\ [][NextBudget]_vars

\* The first day of the spawn's period and its last: the day before the next
\* period starts.
PeriodOf(spawn) ==
    <<spawn.recurrence_date,
      inc_date(spawn.recurrence_date, last.repeat_type, last.repeat_every) - 1>>

NoBudgetSpawnInThePast ==
    last.op = "get_spawns" =>
        \A i \in DOMAIN last._previous_spawns : last._previous_spawns[i].date > Today

\* Reached: a budget started before today, its first periods over, its later
\* ones given a spawn.
PastPeriodsLeftOut ==
    /\ last.op = "get_spawns"
    /\ last.start_date < Today
    /\ inc_date(last.start_date, last.repeat_type, last.repeat_every) - 1 <= Today
    /\ last._previous_spawns # <<>>

\* The amount of the spawn spread evenly over the days first..end, the part
\* that falls on the days of date_range.
SpreadShare(value, first, end, date_range) ==
    Amount_mul(value, Cardinality({d \in first..end : date_range[1] <= d /\ d <= date_range[2]}),
               end - first + 1)

\* C23, as claimed: the budgeted amount reported for a date range is the sum,
\* over the budget's spawns, of the spawn's amount times the days of its period
\* that fall in the range over the days of its period.
BudgetedAmountSpreadOverPeriod ==
    last.op = "amount_for_date_range" =>
        last.amount =
            SeqSum([i \in DOMAIN last._previous_spawns |->
                      SpreadShare(amount_for_account(last._previous_spawns[i], doc.budget[1].account),
                                  last._previous_spawns[i].recurrence_date,
                                  last._previous_spawns[i].date, last.date_range)])

\* C23, amended: the spawn's amount is spread over the days of its period that
\* are still to come, from the later of its first day and tomorrow to its last
\* day; the amount reported is the sum of the parts that fall in the range,
\* nothing for a spawn without a day in the range.
BudgetedAmountSpreadOverDaysToCome ==
    last.op = "amount_for_date_range" =>
        /\ last.amount =
              SeqSum([i \in DOMAIN last._previous_spawns |->
                        SpreadShare(amount_for_account(last._previous_spawns[i], doc.budget[1].account),
                                    IF last._previous_spawns[i].recurrence_date > Today + 1
                                    THEN last._previous_spawns[i].recurrence_date ELSE Today + 1,
                                    last._previous_spawns[i].date, last.date_range)])
        /\ (\A i \in DOMAIN last._previous_spawns :
               \/ last._previous_spawns[i].date < last.date_range[1]
               \/ last._previous_spawns[i].recurrence_date > last.date_range[2])
           => last.amount = 0

\* Reached: a range covering two of the four days of a coming period; half the
\* spawn's amount is reported.
HalfOfAComingPeriod ==
    /\ last.op = "amount_for_date_range"
    /\ Len(last._previous_spawns) = 1
    /\ last._previous_spawns[1].recurrence_date > Today + 1
    /\ last._previous_spawns[1].date = last._previous_spawns[1].recurrence_date + 3
    /\ last.date_range = <<last._previous_spawns[1].recurrence_date + 1,
                           last._previous_spawns[1].recurrence_date + 2>>
    /\ last.amount # 0
    /\ 2 * last.amount = amount_for_account(last._previous_spawns[1], doc.budget[1].account)

\* ------------------------------------------------------------------------
\* C28: for a budget changed by Document.change_budget, undo restores every
\* attribute of the budget (account, amount, notes, ...) to its value before
\* the change, the value the action's copy holds; a following redo restores
\* every one of them to its value after the change.
BudgetChangeUndone ==
    [][\A b \in DOMAIN doc.budget :
          LET undone == PyIndex(_actions, _index)
              redone == PyIndex(_actions, _index + 1)
          IN /\ (last'.op = "undo" /\ ~last'.raised /\ b \in DOMAIN undone.changed_budgets)
                   => doc'.budget[b] = undone.changed_budgets[b]
             /\ (last'.op = "redo" /\ ~last'.raised /\ b \in DOMAIN redone.changed_budgets)
                   => doc'.budget[b] = redone.changed_budgets[b]]_vars

\* ------------------------------------------------------------------------
\* C29: after Document.change_group renamed a group that contains accounts,
\* undo restores the group's name and the group name stored on every account
\* of the group, so that each of them still belongs to the group; redo makes
\* group and accounts carry the new name again.
GroupRenameUndoneWithItsAccounts ==
    [][\A g \in doc.groups, a \in doc.accounts :
          LET undone == PyIndex(_actions, _index)
              redone == PyIndex(_actions, _index + 1)
              member == doc.account[a].groupname = doc.group[g].name
              member_after == doc'.account[a].groupname = doc'.group[g].name
          IN /\ (last'.op = "undo" /\ ~last'.raised /\ member
                   /\ g \in DOMAIN undone.changed_groups)
                   => (doc'.group[g] = undone.changed_groups[g] /\ member_after)
             /\ (last'.op = "redo" /\ ~last'.raised /\ member
                   /\ g \in DOMAIN redone.changed_groups)
                   => (doc'.group[g] = redone.changed_groups[g] /\ member_after)]_vars

\* ============================================================ the clearing
\* A document the user edits, undoes, redoes, saves and clears.

\* Undoer.undo_description: None when nothing can be undone
undo_description(actions, index) ==
    IF can_undo(actions, index) THEN PyIndex(actions, index).description ELSE None

\* Undoer.redo_description: None when nothing can be redone, an IndexError
\* when the list has no action at the place after the cursor
redo_description(actions, index) ==
    IF ~can_redo(actions, index) THEN None
    ELSE IF -(index + 1) > Len(actions) THEN "IndexError"
    ELSE PyIndex(actions, index + 1).description

\* Undoer.clear
Undoer_clear(st) == [st EXCEPT !._actions = <<>>]

\* Document.clear
Document_clear(st) == _cook([Undoer_clear(st) EXCEPT !.doc = NewDocument], NoDate)

\* document.clear()
ClearDocument ==
    /\ Becomes(Document_clear(Now))
    /\ hist' = [hist EXCEPT !.applied = <<>>, !.undone = <<>>]
    /\ last' = [op |-> "clear", raised |-> FALSE, discarded |-> 0]
    /\ UNCHANGED <<_date_range, _save_point, el>>

\* document.redo(): past its assertion Undoer.redo reads the action after the
\* cursor, an IndexError when the list has none there
RedoOrIndexError ==
    IF can_redo(_actions, _index) /\ -(_index + 1) > Len(_actions)
    THEN /\ last' = [op |-> "redo", raised |-> TRUE, discarded |-> 0]
         /\ UNCHANGED <<doc, ovenVars, _actions, _index, _save_point, el, hist>>
    ELSE Redo

NextClear ==
    \/ \E date \in {Today, Today + 1}, to \in {NOEDIT, <<"Food">>} : AddTransaction(date, to)
    \/ AddGroup
    \/ Undo
    \/ RedoOrIndexError
    \/ Save
    \/ ClearDocument

SpecClear == Init /\ [][NextClear]_vars

\* ------------------------------------------------------------------------
\* C30: after Undoer.clear() (as done by Document.clear), whatever the cursor
\* and the save point were before, can_undo() and can_redo() are false and
\* undo_description() and redo_description() return nothing without raising;
\* the next record(action) makes exactly that action undoable, with can_redo()
\* false.
ClearedUndoerIsEmpty ==
    [][/\ last'.op = "clear" =>
             /\ ~can_undo(_actions', _index') /\ ~can_redo(_actions', _index')
             /\ undo_description(_actions', _index') = None
             /\ redo_description(_actions', _index') = None
       /\ (last.op = "clear" /\ hist'.serial = hist.serial + 1) =>
             /\ Len(_actions') = 1 /\ _actions'[1].id = hist'.serial
             /\ can_undo(_actions', _index') /\ ~can_redo(_actions', _index')
             /\ undo_description(_actions', _index') = _actions'[1].description]_vars

\* ================================================ the spawns and the undoer
\* The loaded document with its schedule, the commands on its spawns, and the
\* undoing and redoing of them.

\* document.undo() when something can be undone
UndoCommand ==
    /\ can_undo(_actions, _index)
    /\ Becomes(Document_undo(Now))
    /\ hist' = [hist EXCEPT !.applied = SubSeq(@, 1, Len(@) - 1),
                            !.undone = <<hist.applied[Len(hist.applied)]>> \o @]
    /\ last' = ScheduleOp("undo", <<>>, FALSE, NOEDIT, NOEDIT, NOEDIT)
    /\ UNCHANGED <<_date_range, _save_point, el>>

\* document.redo() when something can be redone
RedoCommand ==
    /\ can_redo(_actions, _index)
    /\ Becomes(Document_redo(Now))
    /\ hist' = [hist EXCEPT !.applied = Append(@, Head(hist.undone)), !.undone = Tail(@)]
    /\ last' = ScheduleOp("redo", <<>>, FALSE, NOEDIT, NOEDIT, NOEDIT)
    /\ UNCHANGED <<_date_range, _save_point, el>>

NextSpawns ==
    \/ NextSchedule
    \/ UndoCommand
    \/ RedoCommand

SpecSpawns == InitSchedule /\ [][NextSpawns]_vars

\* ------------------------------------------------------------------------
\* C26: after any commands on spawns (change, delete, reconcile, materialize)
\* and any undo and redo of them, the document's transaction list holds only
\* real transactions, never a Spawn; the spawns are only among the entries the
\* cook made, never in the list.
NoSpawnInTheTransactionList ==
    /\ \A t \in doc.transactions :
          /\ doc.txn[t].txntype = 1
          /\ doc.txn[t].key = <<1, t, NoDate>>
          /\ doc.txn[t].ref = 0 /\ doc.txn[t].recurrence_date = NoDate
    /\ \A a \in AccountNames : \A i \in DOMAIN entries[a]._entries :
          entries[a]._entries[i].txn[1] = 1 => entries[a]._entries[i].txn[2] \in doc.transactions

\* Reached: the materialization of a spawn undone and redone, the materialized
\* transaction in the list beside the spawns that remain.
MaterializationRedone ==
    /\ last.op = "redo"
    /\ doc.transactions # {}
    /\ ShownSpawns # {}

\* ===================================================== the accounts' names
\* A new document whose accounts are created and renamed, one or several in
\* one call, with undo and redo. Here the members of AccountNames stand for
\* the account objects and every account carries its name as an attribute.

\* The names given: with capitals, with surrounding spaces, and another one.
GivenNames == {"cash", "Cash", " cash ", "bank", "New account", "New account 1"}

\* str.strip()
strip(name) == IF name = " cash " THEN "cash" ELSE name

\* str.lower()
lower(name) ==
    CASE name = "Cash" -> "cash"
      [] name = "New account" -> "new account"
      [] name = "New account 1" -> "new account 1"
      [] OTHER -> name

\* Account(name, currency, type)
NamedAccount(name, type) ==
    [name |-> name, type |-> type, autocreated |-> FALSE, groupname |-> None, inactive |-> FALSE]

\* AccountList.find(name): <<>> for None (no account has an account number)
AccountList_find_name(document, name) ==
    LET normalized == strip(lower(name))
        found == {a \in document.accounts : strip(lower(document.account[a].name)) = normalized}
    IN IF found = {} THEN <<>> ELSE <<CHOOSE a \in found : TRUE>>

\* Document.new_account(type, None), account the new object
new_named_account(st, id, account) ==
    LET name == new_name("New account",
                         {n \in GivenNames : AccountList_find_name(st.doc, n) # <<>>})
        s1 == [st EXCEPT !.doc.accounts = @ \cup {account},
                         !.doc.account[account] = NamedAccount(name, "asset"),
                         !.entries[account] = NewEntryList]
    IN record(s1, [Action(id, "Add account") EXCEPT !.added_accounts = {account}])

\* AccountList.rename_account(account, new_name) as AccountList.set_account_name
\* does it: raised is set when another account bears the name
rename_account(r, account, name) ==
    LET other == AccountList_find_name(r.st.doc, name)
    IN IF r.raised THEN r
       ELSE IF other # <<>> /\ other # <<account>> THEN [r EXCEPT !.raised = TRUE]
       ELSE [r EXCEPT !.st.doc.account[account].name = strip(name)]

\* The loop of Document.change_accounts over the accounts
RECURSIVE RenameEach(_, _, _)
RenameEach(r, accounts, name) ==
    IF accounts = <<>> THEN r
    ELSE RenameEach(rename_account(r, Head(accounts), strip(name)), Tail(accounts), name)

\* Document.change_accounts(accounts, name=): what it returns, whether it
\* raised, and the document it leaves (not cooked when it raised)
change_accounts_name(st, id, accounts, name) ==
    LET clash == \E i \in DOMAIN accounts :
                    LET other == AccountList_find_name(st.doc, name)
                    IN other # <<>> /\ other # <<accounts[i]>>
        action == Action_change_accounts(Action(id, "Change account"), Range(accounts))
        Done(r) == IF r.raised THEN r ELSE [r EXCEPT !.st = _cook(@, NoDate)]
    IN IF clash THEN [st |-> st, returned |-> FALSE, raised |-> FALSE]
       ELSE Done(RenameEach([st |-> record(st, action), returned |-> TRUE, raised |-> FALSE],
                            accounts, name))

InitAccounts ==
    /\ doc = NewDocument
    /\ NewOvenAndUndoer
    /\ el = NewEntryList
    /\ last = [op |-> "init", raised |-> FALSE, discarded |-> 0]
    /\ hist = NoHistory

\* document.new_account(AccountType.Asset, None)
AddNamedAccount ==
    /\ hist.serial < MaxRecorded
    /\ doc.accounts # AccountNames
    /\ Recorded("new_account",
                new_named_account(Now, NextAction, CHOOSE a \in AccountNames \ doc.accounts : TRUE))

\* document.change_accounts(accounts, name=name)
RenameAccounts(accounts, name) ==
    LET r == change_accounts_name(Now, NextAction, accounts, name)
    IN /\ hist.serial < MaxRecorded
       /\ Becomes(r.st)
       /\ hist' = IF r.returned
                  THEN [hist EXCEPT !.serial = @ + 1, !.applied = Append(@, hist.serial + 1),
                                    !.undone = <<>>]
                  ELSE hist
       /\ last' = [op |-> "change_accounts", raised |-> r.raised,
                   discarded |-> IF r.returned THEN Len(hist.undone) ELSE 0,
                   returned |-> r.returned /\ ~r.raised]
       /\ UNCHANGED <<_date_range, _save_point, el>>

NextAccounts ==
    \/ AddNamedAccount
    \/ \E first \in doc.accounts, second \in doc.accounts, name \in GivenNames :
          RenameAccounts(IF first = second THEN <<first>> ELSE <<first, second>>, name)
    \/ Undo
    \/ Redo

SpecAccounts == InitAccounts /\ [][NextAccounts]_vars

\* ------------------------------------------------------------------------
\* C27: after any sequence of new_account, change_accounts (renaming one or
\* several accounts in one call), undo and redo, no two accounts of the list
\* have the same name compared case-insensitively and ignoring surrounding
\* spaces; a rename that clashes with another account's name is refused and
\* leaves all accounts unchanged.
AccountNamesUniqueAndClashRefused ==
    [][/\ \A a \in doc'.accounts, b \in doc'.accounts :
             strip(lower(doc'.account[a].name)) = strip(lower(doc'.account[b].name)) => a = b
       /\ (last'.op = "change_accounts" /\ ~last'.returned) =>
             \A a \in doc.accounts : doc'.account[a] = doc.account[a]]_vars

\* ================================================================ the amounts
\* Amount(value, currency), the plain number 0 an amount without currency; and
\* what an operation gives when it raises ValueError.
Currencies == {"CAD", "USD"}
MaxValue == 2

Amount(value, currency) == [value |-> value, currency |-> currency]
Zero == Amount(0, None)
ValueError == Amount(0, "ValueError")

\* Amount(0, currency) == 0
IsZero(a) == a.value = 0

\* The operands: amounts of both signs in both currencies, the zero of each
\* currency and the plain 0.
Operands ==
    {Amount(v, c) : v \in (-MaxValue)..MaxValue, c \in Currencies} \cup {Zero}

\* Amount.__add__ adding the numbers whatever the currencies
Amount_add_any(first, second) ==
    IF IsZero(first) THEN second
    ELSE IF IsZero(second) THEN first
    ELSE Amount(first.value + second.value, first.currency)

\* Amount.__add__ / __radd__
Amount_add(first, second) ==
    IF IsZero(first) THEN second
    ELSE IF IsZero(second) THEN first
    ELSE IF first.currency # second.currency THEN ValueError
    ELSE Amount(first.value + second.value, first.currency)

\* Amount.__neg__
Amount_neg(a) == [a EXCEPT !.value = -@]

\* Amount.__sub__ / __rsub__
Amount_sub(first, second) ==
    IF IsZero(second) THEN first
    ELSE IF IsZero(first) THEN Amount_neg(second)
    ELSE IF first.currency # second.currency THEN ValueError
    ELSE Amount(first.value - second.value, first.currency)

\* Amount.__eq__: the zeros of all currencies are equal, to each other and to 0
Amount_eq(first, second) ==
    first.value = second.value /\ (first.value = 0 \/ first.currency = second.currency)

InitAmount ==
    /\ doc = NewDocument
    /\ NewOvenAndUndoer
    /\ el = NewEntryList
    /\ hist = NoHistory
    /\ \E first \in Operands, second \in Operands :
          last = [op |-> "init", first |-> first, second |-> second, result |-> Zero]

\* first + second
Add ==
    /\ last.op = "init"
    /\ last' = [last EXCEPT !.op = "add", !.result = Amount_add(last.first, last.second)]
    /\ UNCHANGED <<doc, ovenVars, undoVars, el, hist>>

\* first - second
Sub ==
    /\ last.op = "init"
    /\ last' = [last EXCEPT !.op = "sub", !.result = Amount_sub(last.first, last.second)]
    /\ UNCHANGED <<doc, ovenVars, undoVars, el, hist>>

NextAmount ==
    \/ Add
    \/ Sub

SpecAmount == InitAmount /\ [][NextAmount]_vars

\* ------------------------------------------------------------------------
\* C25: adding or subtracting two amounts of different currencies raises
\* ValueError unless one operand is zero; with a zero operand the result is the
\* other operand (negated where the subtraction requires it) in that operand's
\* currency; no result combines values of two currencies.
NoArithmeticAcrossCurrencies ==
    last.op \in {"add", "sub"} =>
       LET first == last.first
           second == IF last.op = "add" THEN last.second ELSE Amount_neg(last.second)
       IN /\ (~IsZero(first) /\ ~IsZero(second) /\ first.currency # second.currency)
                => last.result = ValueError
          /\ (IsZero(first) /\ ~IsZero(second)) => last.result = second
          /\ (IsZero(second) /\ ~IsZero(first)) => last.result = first
          /\ (IsZero(first) /\ IsZero(second)) => Amount_eq(last.result, Zero)
          /\ (~IsZero(first) /\ ~IsZero(second) /\ first.currency = second.currency)
                => last.result = Amount(first.value + second.value, first.currency)

\* Reached: Amount(0, 'USD') - Amount(2, 'CAD') = Amount(-2, 'CAD'), and a sum
\* of two currencies refused.
ZeroOfAnotherCurrencySubtracted ==
    /\ last.op = "sub"
    /\ last.first = Amount(0, "USD") /\ last.second = Amount(2, "CAD")
    /\ last.result = Amount(-2, "CAD")

\* =========================================== the transaction and its splits
\* One transaction, its splits holding amounts of one or two currencies, put
\* through its public mutations.
MaxMutations == 2

\* sum(amounts), Python's sum starting from the plain 0
RECURSIVE AmountSum(_)
AmountSum(amounts) ==
    IF amounts = <<>> THEN Zero
    ELSE Amount_add(AmountSum(SubSeq(amounts, 1, Len(amounts) - 1)), amounts[Len(amounts)])

\* The currency codes in the order they first show up
RECURSIVE FirstSeen(_)
FirstSeen(codes) ==
    IF codes = <<>> THEN <<>>
    ELSE LET before == FirstSeen(SubSeq(codes, 1, Len(codes) - 1))
         IN IF codes[Len(codes)] \in Range(before) THEN before
            ELSE Append(before, codes[Len(codes)])

RemoveAt(s, i) == SubSeq(s, 1, i - 1) \o SubSeq(s, i + 1, Len(s))

AmountsOf(splits) == [i \in DOMAIN splits |-> splits[i].amount]

SplitsWithAmount(splits) == SelectSeq(splits, LAMBDA s : ~IsZero(s.amount))

\* The balance of each currency among the splits with an amount, the null
\* balances left out (stripfalse(currency2balance.values()))
Imbalanced(splits) ==
    LET with_amount == SplitsWithAmount(splits)
        codes == FirstSeen([i \in DOMAIN with_amount |-> with_amount[i].amount.currency])
        Balance(code) ==
            AmountSum(AmountsOf(SelectSeq(with_amount, LAMBDA s : s.amount.currency = code)))
    IN SelectSeq([i \in DOMAIN codes |-> Balance(codes[i])], LAMBDA a : ~IsZero(a))

\* Transaction.is_mct
is_mct(splits) ==
    \E i, j \in DOMAIN splits :
       /\ ~IsZero(splits[i].amount) /\ ~IsZero(splits[j].amount)
       /\ splits[i].amount.currency # splits[j].amount.currency

\* The loop of Transaction.balance_currencies over the imbalanced amounts, no
\* split being the strong one
RECURSIVE FixEach(_, _)
FixEach(splits, imbalanced) ==
    IF imbalanced = <<>> THEN splits
    ELSE LET amt == Head(imbalanced)
             unassigned == {i \in DOMAIN splits :
                              /\ splits[i].account = None
                              /\ (IsZero(splits[i].amount)
                                  \/ splits[i].amount.currency = amt.currency)}
             Fixed(i) == IF Amount_eq(splits[i].amount, amt) THEN RemoveAt(splits, i)
                         ELSE [splits EXCEPT ![i].amount = Amount_sub(@, amt)]
         IN FixEach(IF unassigned = {} THEN Append(splits, Split(None, Amount_neg(amt)))
                    ELSE Fixed(SetMin(unassigned)),
                    Tail(imbalanced))

\* Transaction.balance_currencies()
balance_currencies(splits) ==
    LET imbalanced == Imbalanced(splits)
        same_side == \A i, j \in DOMAIN imbalanced :
                        (imbalanced[i].value > 0) = (imbalanced[j].value > 0)
    IN IF imbalanced # <<>> /\ same_side THEN FixEach(splits, imbalanced) ELSE splits

\* Transaction.balance(), no split being the strong one
Transaction_balance(splits) ==
    LET imbalance == AmountSum(AmountsOf(splits))
        unassigned == {i \in DOMAIN splits : splits[i].account = None}
        adjusted == IF unassigned # {}
                    THEN [splits EXCEPT ![SetMin(unassigned)].amount = Amount_sub(@, imbalance)]
                    ELSE Append(splits, Split(None, Amount_neg(imbalance)))
    IN IF is_mct(splits) THEN balance_currencies(splits)
       ELSE IF IsZero(imbalance) THEN splits
       ELSE SelectSeq(adjusted, LAMBDA s : ~(s.account = None /\ IsZero(s.amount)))

\* Transaction.amount (getter) of a transaction of one currency
Transaction_amount(splits) ==
    AmountSum(AmountsOf(SelectSeq(splits, LAMBDA s : s.amount.value > 0)))

\* Transaction.can_set_amount
Transaction_can_set_amount(splits) == Len(splits) <= 2 /\ ~is_mct(splits)

\* Transaction.amount (setter)
Transaction_set_amount(splits, value) ==
    LET debits == {i \in DOMAIN splits : splits[i].amount.value > 0}
        credits == {i \in DOMAIN splits : splits[i].amount.value < 0}
        debit_account == IF debits = {} THEN None ELSE splits[SetMin(debits)].account
        credit_account == IF credits = {} THEN None ELSE splits[SetMin(credits)].account
    IN IF Amount_eq(value, Transaction_amount(splits)) THEN splits
       ELSE <<Split(debit_account, value), Split(credit_account, Amount_neg(value))>>

\* Transaction.splitted_splits, as two sets of split indexes <<froms, tos>>
Transaction_splitted_splits(splits) ==
    LET null_amounts == {i \in DOMAIN splits : splits[i].amount.value = 0}
        froms == {i \in DOMAIN splits : splits[i].amount.value < 0}
        tos == {i \in DOMAIN splits : splits[i].amount.value > 0}
    IN IF tos = {} /\ null_amounts # {}
       THEN <<froms \cup (null_amounts \ {SetMax(null_amounts)}), {SetMax(null_amounts)}>>
       ELSE <<froms \cup null_amounts, tos>>

\* Transaction.change(date, from_, to, amount, currency): each argument NOEDIT
\* or <<value>>
Transaction_change(t, date, from_, to, amt, currency) ==
    LET Dated(x) ==
            IF date = NOEDIT THEN x
            ELSE [x EXCEPT
                   !.date = date[1],
                   !.splits = [i \in DOMAIN x.splits |->
                       [x.splits[i] EXCEPT !.reconciliation_date =
                           IF date[1] > Today THEN NoDate
                           ELSE IF @ = x.date THEN date[1] ELSE @]]]
        Amounted(x) ==
            IF amt # NOEDIT /\ Transaction_can_set_amount(x.splits)
            THEN [x EXCEPT !.splits = Transaction_set_amount(@, [amt[1] EXCEPT !.value = Abs(@)])]
            ELSE x
        Assign(x, side, account) ==
            IF account # NOEDIT /\ Cardinality(side) = 1
            THEN [x EXCEPT !.splits[SetMin(side)].account = account[1]] ELSE x
        From(x) == Assign(x, Transaction_splitted_splits(x.splits)[1], from_)
        To(x) == Assign(x, Transaction_splitted_splits(x.splits)[2], to)
        Tagged(x) ==
            IF currency = NOEDIT THEN x
            ELSE [x EXCEPT !.splits = [i \in DOMAIN @ |->
                     IF ~IsZero(@[i].amount) /\ @[i].amount.currency # currency[1]
                     THEN [@[i] EXCEPT !.amount = Amount(@.value, currency[1]),
                                       !.reconciliation_date = NoDate]
                     ELSE @[i]]]
        Reconciled(x) ==
            [x EXCEPT !.splits = [i \in DOMAIN @ |->
                [@[i] EXCEPT !.reconciliation_date =
                    IF @ # NoDate /\ @ < x.date THEN x.date ELSE @]]]
    IN Reconciled(Tagged(To(From(Amounted(Dated(t))))))

\* Transaction.reassign_account(account, reassign_to)
reassign_account(t, account, reassign_to) ==
    [t EXCEPT !.splits = [i \in DOMAIN @ |->
        IF @[i].account = account
        THEN [@[i] EXCEPT !.reconciliation_date = NoDate, !.account = reassign_to]
        ELSE @[i]]]

\* Transaction.remove_split(split), the split at place i
remove_split(t, i) == [t EXCEPT !.splits = Transaction_balance(RemoveAt(@, i))]

\* Transaction.set_splits(splits), then Transaction.balance()
set_splits(t, splits) == [t EXCEPT !.splits = Transaction_balance(splits)]

\* The transactions to start from, all balanced: none yet, a two-way one, one of
\* two currencies, and one with three splits, the last of them unassigned.
StartingSplits ==
    {<<>>,
     <<[Split("Food", Amount(2, "CAD")) EXCEPT !.reconciliation_date = Today],
       Split("New account", Amount(-2, "CAD"))>>,
     <<Split("Food", Amount(2, "CAD")), Split("New account", Amount(-1, "USD"))>>,
     <<Split("Food", Amount(2, "CAD")), Split("New account", Amount(-1, "CAD")),
       Split(None, Amount(-1, "CAD"))>>}

\* The splits handed to set_splits: of one side only, of two currencies on one
\* side, and unbalanced ones.
GivenSplits ==
    {<<Split("Food", Amount(2, "CAD"))>>,
     <<Split("Food", Amount(2, "CAD")), Split("New account", Amount(1, "USD"))>>,
     <<Split("Food", Amount(1, "CAD")), Split(None, Amount(-2, "CAD"))>>,
     <<Split("Food", Amount(2, "CAD")), Split("New account", Amount(-1, "USD")),
       Split(None, Amount(1, "USD"))>>}

InitTransaction ==
    /\ doc = NewDocument
    /\ NewOvenAndUndoer
    /\ el = NewEntryList
    /\ hist = NoHistory
    /\ \E splits \in StartingSplits :
          last = [op |-> "init", date |-> Today, splits |-> splits, mutations |-> 0,
                  currency |-> NOEDIT, before |-> <<>>]

Mutated(op, currency, t) ==
    /\ last' = [op |-> op, date |-> t.date, splits |-> t.splits,
                mutations |-> last.mutations + 1, currency |-> currency,
                before |-> last.splits]
    /\ UNCHANGED <<doc, ovenVars, undoVars, el, hist>>

\* transaction.change(date=, from_=, to=, amount=, currency=)
ChangeTransaction(date, from_, to, amt, currency) ==
    /\ last.mutations < MaxMutations
    /\ Mutated("change", currency, Transaction_change(last, date, from_, to, amt, currency))

\* transaction.amount = value
SetAmount(value) ==
    /\ last.mutations < MaxMutations
    /\ Transaction_can_set_amount(last.splits)
    /\ Mutated("amount", NOEDIT, [last EXCEPT !.splits = Transaction_set_amount(@, value)])

\* transaction.set_splits(splits); transaction.balance()
SetSplits(splits) ==
    /\ last.mutations < MaxMutations
    /\ Mutated("set_splits", NOEDIT, set_splits(last, splits))

\* transaction.remove_split(transaction.splits[i])
RemoveSplit(i) ==
    /\ last.mutations < MaxMutations
    /\ Mutated("remove_split", NOEDIT, remove_split(last, i))

\* transaction.reassign_account(account, reassign_to)
ReassignAccount(account, reassign_to) ==
    /\ last.mutations < MaxMutations
    /\ Mutated("reassign_account", NOEDIT, reassign_account(last, account, reassign_to))

NextTransaction ==
    \/ \E date \in {NOEDIT, <<Today + 1>>}, from_ \in {NOEDIT, <<"New account">>},
          to \in {NOEDIT, <<"Food">>},
          amt \in {NOEDIT, <<Amount(1, "CAD")>>, <<Amount(-3, "USD")>>},
          currency \in {NOEDIT} \cup {<<c>> : c \in Currencies} :
          ChangeTransaction(date, from_, to, amt, currency)
    \/ \E value \in {Amount(1, "CAD"), Amount(3, "USD"), Zero} : SetAmount(value)
    \/ \E splits \in GivenSplits : SetSplits(splits)
    \/ \E i \in DOMAIN last.splits : RemoveSplit(i)
    \/ \E account \in AccountNames, reassign_to \in {None, "Food"} :
          ReassignAccount(account, reassign_to)

SpecTransaction == InitTransaction /\ [][NextTransaction]_vars

\* The splits balance: those of one currency sum to zero, those of several
\* currencies have not all their imbalanced currencies on one side.
Balanced(splits) ==
    IF is_mct(splits)
    THEN LET imbalanced == Imbalanced(splits)
         IN imbalanced = <<>>
            \/ \E i, j \in DOMAIN imbalanced : imbalanced[i].value > 0 /\ imbalanced[j].value < 0
    ELSE IsZero(AmountSum(AmountsOf(splits)))

\* ------------------------------------------------------------------------
\* C24: after any public mutation of a transaction (change with any of date,
\* amount, currency, from and to, the amount setter, set_splits followed by
\* balance, remove_split, reassign_account) the amounts of its splits sum to
\* zero, and those of a transaction of several currencies are balanced as the
\* balancing rules require.
SplitsBalanceAfterEveryMutation ==
    last.op # "init" => Balanced(last.splits)

\* ============================================================ the dirty flag
\* A document the user edits, undoes, redoes, saves (by hand or by the
\* autosave) and whose properties the user sets.

\* Document.__init__: _dirty_flag False beside the empty lists
NewDocumentWithFlag ==
    [f \in DOMAIN NewDocument \cup {"_dirty_flag"} |->
        IF f = "_dirty_flag" THEN FALSE ELSE NewDocument[f]]

\* Document.is_dirty
is_dirty(st, save_point) ==
    st.doc._dirty_flag \/ modified(st._actions, st._index, save_point)

\* Document.set_dirty
set_dirty(st) == [st EXCEPT !.doc._dirty_flag = TRUE]

InitDirty ==
    /\ doc = NewDocumentWithFlag
    /\ NewOvenAndUndoer
    /\ el = NewEntryList
    /\ last = [op |-> "init", raised |-> FALSE, discarded |-> 0]
    /\ hist = NoHistory

\* document.save_to_xml(filename, autosave): the save point and the flag are
\* touched by a save that is not an autosave only
SaveToXml(autosave) ==
    /\ _save_point' = IF autosave THEN _save_point ELSE set_save_point(_actions, _index)
    /\ doc' = IF autosave THEN doc ELSE [doc EXCEPT !._dirty_flag = FALSE]
    /\ hist' = IF autosave THEN hist ELSE [hist EXCEPT !.saved = hist.applied]
    /\ last' = [op |-> IF autosave THEN "autosave" ELSE "save_to_xml",
                raised |-> FALSE, discarded |-> 0]
    /\ UNCHANGED <<ovenVars, _actions, _index, el>>

\* document.set_dirty()
SetDirty ==
    /\ ~doc._dirty_flag
    /\ Becomes(set_dirty(Now))
    /\ last' = [op |-> "set_dirty", raised |-> FALSE, discarded |-> 0]
    /\ UNCHANGED <<_date_range, _save_point, el, hist>>

NextDirty ==
    \/ \E date \in {Today, Today + 1}, to \in {NOEDIT, <<"Food">>} : AddTransaction(date, to)
    \/ AddGroup
    \/ Undo
    \/ Redo
    \/ \E autosave \in BOOLEAN : SaveToXml(autosave)
    \/ SetDirty

SpecDirty == InitDirty /\ [][NextDirty]_vars

\* ------------------------------------------------------------------------
\* C31: after save_to_xml with autosave false is_dirty() is false; after
\* save_to_xml with autosave true is_dirty() is what it was before the call;
\* and when an undo or a redo brings the history back to the actions that
\* were applied at the last save, the flag not being set, is_dirty() is false.
NotDirtyAtTheSavedState ==
    [][/\ last'.op = "save_to_xml" => ~is_dirty(Now', _save_point')
       /\ last'.op = "autosave" => (is_dirty(Now', _save_point') <=> is_dirty(Now, _save_point))
       /\ (last'.op \in {"undo", "redo"} /\ ~doc'._dirty_flag /\ hist'.applied = hist'.saved)
             => ~is_dirty(Now', _save_point')]_vars

\* ================================================== what is left of a budget
\* A loaded document with budgets on one income or expense account and real
\* transactions of that account, in either direction, asked for its budget
\* spawns.

\* The amounts of the loaded transactions: below, together at, and over the
\* budgets' amounts.
SpentAmounts == {10, 20, 40}

\* A transaction spending on the account (the account debited) or taking back
\* from it (the account credited).
Moved(number, date, amt, debited) ==
    IF debited THEN TwoWay(number, date, "New account", "Food", amt, FALSE)
    ELSE TwoWay(number, date, "Food", "New account", amt, FALSE)

MovedTransactions ==
    {EmptyDict}
    \cup {(1 :> Moved(1, d, v, s)) : d \in Dates, v \in SpentAmounts, s \in BOOLEAN}
    \cup {(1 :> Moved(1, d, 10, s)) @@ (2 :> Moved(2, e, 20, s)) :
             d \in Dates, e \in Dates, s \in BOOLEAN}

RemainingDocuments ==
    {[NewDocument EXCEPT
        !.accounts = AccountNames,
        !.account = [a \in AccountNames |->
                        NewAccount(IF a = "Food" THEN type ELSE "asset", FALSE)],
        !.transactions = DOMAIN t, !.txn = t,
        !.budgets = [i \in 1..Cardinality(DOMAIN b) |-> i], !.budget = b] :
     type \in {"expense", "income"}, t \in MovedTransactions, b \in LoadedBudgets \ {EmptyDict}}

\* BudgetList.get_spawns, the loop over the budgets: what each budget keeps as
\* its _previous_spawns, the null spawns included
RECURSIVE PreviousSpawns(_, _, _, _, _, _)
PreviousSpawns(ids, budget, accts, until_date, txns, account2consumedtxns) ==
    LET Rest(consumed) == PreviousSpawns(Tail(ids), budget, accts, until_date, txns, consumed)
        Kept(id, b, got) ==
            (id :> got.spawns)
            @@ Rest([account2consumedtxns EXCEPT ![b.account] = got.consumedtxns])
        One(id, b) ==
            IF b.amount = 0 THEN (id :> <<>>) @@ Rest(account2consumedtxns)
            ELSE Kept(id, b, Budget_get_spawns(id, b, accts, Today, "monthly", 1, until_date,
                                               txns, account2consumedtxns[b.account]))
    IN IF ids = <<>> THEN EmptyDict ELSE One(Head(ids), budget[Head(ids)])

InitRemaining ==
    /\ doc \in RemainingDocuments
    /\ NewOvenAndUndoer
    /\ el = NewEntryList
    /\ last = [op |-> "init", spawns |-> <<>>, _previous_spawns |-> EmptyDict]
    /\ hist = NoHistory

\* document.budgets.get_spawns(until_date, txns)
GetBudgetSpawns ==
    /\ last.op = "init"
    /\ last' = [op |-> "get_spawns",
                spawns |-> BudgetList_get_spawns(doc.budgets, doc.budget, doc.account,
                                                 _date_range[2], ListedTransactions(doc)),
                _previous_spawns |->
                    PreviousSpawns(doc.budgets, doc.budget, doc.account, _date_range[2],
                                   ListedTransactions(doc), [a \in AccountNames |-> {}])]
    /\ UNCHANGED <<doc, ovenVars, undoVars, el, hist>>

\* DateRange.future: the days of the range after today
DateRange_future(date_range) ==
    <<IF date_range[1] > Today THEN date_range[1] ELSE Today + 1, date_range[2]>>

\* BudgetList.amount_for_account(account, date_range)
BudgetList_amount_for_account(budgets, budget, _previous_spawns, account, date_range) ==
    IF ~DateRange_bool(DateRange_future(date_range)) THEN 0
    ELSE SeqSum([i \in DOMAIN budgets |->
                   IF budget[budgets[i]].account = account /\ budget[budgets[i]].amount # 0
                   THEN Budget_amount_for_date_range(budget[budgets[i]],
                                                     _previous_spawns[budgets[i]], date_range)
                   ELSE 0])

\* document.budgets.amount_for_account(account, date_range), get_spawns called
\* before
BudgetedForAccount(date_range) ==
    /\ last.op = "get_spawns"
    /\ last' = [op |-> "amount_for_account", spawns |-> last.spawns,
                _previous_spawns |-> last._previous_spawns, date_range |-> date_range,
                amount |-> BudgetList_amount_for_account(doc.budgets, doc.budget,
                                                         last._previous_spawns, "Food",
                                                         date_range)]
    /\ UNCHANGED <<doc, ovenVars, undoVars, el, hist>>

NextRemaining ==
    \/ GetBudgetSpawns
    \/ \E date_range \in {<<Today, Today>>, <<Today, MaxDate>>} : BudgetedForAccount(date_range)

SpecRemaining == InitRemaining /\ [][NextRemaining]_vars

\* The budget's amount with the sign of its account, and what the real
\* transactions of the spawn's period come to on that account, nothing when an
\* earlier budget of the account has consumed them.
BudgetAmount(b) ==
    IF is_debit_account(doc.account[doc.budget[b].account])
    THEN doc.budget[b].amount ELSE -doc.budget[b].amount

SpentIn(b, spawn) ==
    IF \E j \in 1..(b - 1) : doc.budget[j].account = doc.budget[b].account
    THEN 0
    ELSE SumForAccount({t \in ListedTransactions(doc) :
                           /\ doc.budget[b].account \in affected_accounts(t)
                           /\ spawn.recurrence_date <= t.date /\ t.date <= spawn.date},
                       doc.budget[b].account)

\* ------------------------------------------------------------------------
\* C32: the amount of a budget spawn is the budget's amount, with the sign of
\* its account, less the sum on the budget's account of the real transactions
\* dated within the spawn's period that no earlier budget consumed; it is zero
\* when that sum reaches or exceeds the budget's amount in absolute value.
BudgetSpawnIsWhatIsLeft ==
    last.op # "init" =>
        \A b \in DOMAIN last._previous_spawns :
            \A i \in DOMAIN last._previous_spawns[b] :
                LET Left(budget_amount, txns_amount) ==
                        IF Abs(txns_amount) < Abs(budget_amount)
                        THEN Abs(budget_amount - txns_amount) ELSE 0
                IN amount(last._previous_spawns[b][i])
                       = Left(BudgetAmount(b), SpentIn(b, last._previous_spawns[b][i]))

\* Reached: an income account with two budgets and two transactions of the
\* second period that come to the first budget's amount; the first budget's
\* spawn of that period is left with nothing, the other budget's is whole, and
\* the first period's spawn is whole too.
BudgetUsedUpInOnePeriod ==
    /\ last.op = "amount_for_account" /\ last.date_range = <<Today, MaxDate>>
    /\ last.amount = -(30 + 20 + 20)
    /\ doc.account["Food"].type = "income" /\ doc.budgets = <<1, 2>>
    /\ doc.transactions = {1, 2}
    /\ doc.txn[1].date = Today + MonthDays /\ doc.txn[2].date = Today + MonthDays + 1
    /\ amount_for_account(doc.txn[1], "Food") = -10
    /\ Len(last._previous_spawns[1]) = 2
    /\ amount(last._previous_spawns[1][1]) = 30
    /\ amount(last._previous_spawns[1][2]) = 0
    /\ amount(last._previous_spawns[2][2]) = 20
    /\ Len(last.spawns) = 3

\* ------------------------------------------------------------------------
\* C33: whatever the real transactions are, those of a sign opposite to the
\* spending on the budget's account included, what is left in a budget spawn
\* on the budget's account lies between zero and the budget's amount: it never
\* exceeds the budget's amount in absolute value and never has the sign
\* opposite to the budget's.
RemainingWithinTheBudget ==
    last.op # "init" =>
        \A b \in DOMAIN last._previous_spawns :
            \A i \in DOMAIN last._previous_spawns[b] :
                LET Within(left, budget_amount) ==
                        /\ Abs(left) <= Abs(budget_amount)
                        /\ left * budget_amount >= 0
                IN Within(amount_for_account(last._previous_spawns[b][i],
                                             doc.budget[b].account),
                          BudgetAmount(b))

\* ------------------------------------------------------------------------
\* C34: whatever add_entry, clear and cash_flow calls came before, the value
\* cash_flow returns for a date range is the sum of the amounts of the entries
\* that are in the list at the call and dated within the range; a memoized
\* value is not returned once the entries of its range have changed.
CashFlowIsTheSumOfTheEntries ==
    [][\A date_range \in DateRanges :
          (last'.op = "cash_flow" /\ last'.date = date_range[2])
             => el'._daterange2cashflow[date_range]
                   = SeqSum([i \in DOMAIN el._entries |->
                               IF /\ date_range[1] <= el._entries[i].date
                                  /\ el._entries[i].date <= date_range[2]
                               THEN el._entries[i].amount ELSE 0])]_vars

\* ====================================================== the list cleared
\* A stand-alone EntryList fed in date order with entries reconciled on any
\* day from their date on, or not at all, and cleared from any date.

\* How many entries the list is fed before and between the clears.
MaxFed == 3

\* el.add_entry(Entry(split, transaction)), the split reconciled on
\* reconciliation_date
AddReconciledEntry(date, reconciliation_date) ==
    LET t == [Transaction(date) EXCEPT !.position = Len(el._entries)]
        split == [Split("Food", 10) EXCEPT !.reconciliation_date = reconciliation_date]
    IN /\ Len(el._entries) < MaxFed
       /\ el._entries # <<>> => el._entries[Len(el._entries)].date <= date
       /\ reconciliation_date # NoDate => date <= reconciliation_date
       /\ el' = add_entry(el, Entry(split, t, last_entry(el, NoDate)))
       /\ last' = [op |-> "add_entry", date |-> date, n |-> 0]
       /\ UNCHANGED <<doc, ovenVars, undoVars, hist>>

NextCleared ==
    \/ \E date \in Dates, reconciliation_date \in Dates \cup {NoDate} :
          AddReconciledEntry(date, reconciliation_date)
    \/ \E from_date \in Dates \cup {NoDate} : Clear(from_date)

SpecCleared == InitEntryList /\ [][NextCleared]_vars

\* A fresh EntryList given the entries by add_entry, in their order.
RECURSIVE Rebuilt(_)
Rebuilt(given) ==
    IF given = <<>> THEN NewEntryList
    ELSE add_entry(Rebuilt(SubSeq(given, 1, Len(given) - 1)), given[Len(given)])

\* ------------------------------------------------------------------------
\* C35: after EntryList.clear(from_date), for any from_date, the index from
\* dates to entries, the sorted list of dates and the last reconciled entry
\* are those of a fresh EntryList given the kept entries by add_entry in their
\* order, also when several kept entries share the latest reconciliation date.
ClearedIsRebuilt ==
    [][last'.op = "clear" =>
          LET Same(fresh) ==
                  /\ el'._entries = fresh._entries
                  /\ el'._date2entries = fresh._date2entries
                  /\ el'._sorted_entry_dates = fresh._sorted_entry_dates
                  /\ el'._last_reconciled = fresh._last_reconciled
          IN Same(Rebuilt(el'._entries))]_vars

\* Reached: a clear that removed an entry and kept two entries of different
\* dates reconciled on the same day, the later of them being the last
\* reconciled entry.
ClearedWithTwoReconciledTheSameDay ==
    /\ last.op = "clear" /\ last.n = 1
    /\ Len(el._entries) = 2
    /\ el._entries[1].date < el._entries[2].date
    /\ el._entries[1].reconciliation_date = el._entries[2].reconciliation_date
    /\ el._entries[1].reconciliation_date # NoDate
    /\ el._last_reconciled = <<el._entries[2]>>

\* ======================================================= commands turned down
\* A loaded document with a schedule, two accounts bearing names and two
\* groups: the user changes and deletes occurrences and answers the scope
\* prompt (also by cancelling), renames accounts and groups (also to names
\* that are taken), undoes and redoes.

\* ScheduleScope: the answers to the scope prompt
ScheduleScope == {"Local", "Global", "Cancel"}

\* Transaction.is_spawn
is_spawn(t) == t.txntype # 1

\* Document._query_for_scope_if_needed(transactions), the user answering scope:
\* whether OperationAborted was raised, and whether the scope is global
_query_for_scope_if_needed(transactions, scope) ==
    IF \E i \in DOMAIN transactions : is_spawn(transactions[i])
    THEN [aborted |-> scope = "Cancel", global_scope |-> scope = "Global"]
    ELSE [aborted |-> FALSE, global_scope |-> FALSE]

\* Document.change_transactions([spawn], date, amount) recording its action
\* before it asks for the scope.
change_transactions_asking_late(st, id, spawn, scope, date, amt) ==
    LET Asked(q) == IF q.aborted
                    THEN record(st, Action_change_spawns(Action(id, "Change transaction"),
                                                         <<spawn>>, st.doc))
                    ELSE change_spawn(st, id, spawn, q.global_scope, date, amt)
    IN Asked(_query_for_scope_if_needed(<<spawn>>, scope))

\* Document.change_transactions([spawn], date, amount) under handle_abort: the
\* document as it was when the prompt is cancelled
change_transactions_asking(st, id, spawn, scope, date, amt) ==
    LET Asked(q) == IF q.aborted THEN st
                    ELSE change_spawn(st, id, spawn, q.global_scope, date, amt)
    IN Asked(_query_for_scope_if_needed(<<spawn>>, scope))

\* Document.delete_transactions(spawns) under handle_abort
delete_transactions_asking(st, id, spawns, scope) ==
    LET Asked(q) == IF q.aborted THEN st ELSE delete_spawns(st, id, spawns, q.global_scope)
    IN Asked(_query_for_scope_if_needed(spawns, scope))

\* Document.load_from_xml: the loader's accounts, groups and schedule, cooked
InitTurnedDown ==
    /\ \E repeat_type \in RepeatTypes :
          doc = [NewDocument EXCEPT
                    !.accounts = AccountNames,
                    !.account = [a \in AccountNames |->
                                    NamedAccount(a, IF a = "Food" THEN "expense" ELSE "asset")],
                    !.groups = {1, 2},
                    !.group = (1 :> [name |-> "New group", type |-> "asset"])
                              @@ (2 :> [name |-> "New group 1", type |-> "asset"]),
                    !.schedules = <<1>>,
                    !.schedule = (1 :> Loader_load(1, RecurrenceInfo(
                                          ScheduledTransaction(Today + 1, 10), repeat_type, 1,
                                          EmptyDict, EmptyDict)))]
    /\ entries = Oven_cook([a \in AccountNames |-> NewEntryList], doc, NoDate, MaxScheduleDate)
    /\ _cooked_until = MaxScheduleDate
    /\ _date_range = <<Today, MaxScheduleDate>>
    /\ _actions = <<>> /\ _index = LastIndex /\ _save_point = <<>>
    /\ el = NewEntryList
    /\ last = [op |-> "load_from_xml", raised |-> FALSE, discarded |-> 0]
    /\ hist = NoHistory

\* A command that left the document as st, with or without an Action recorded.
Answered(op, st) ==
    /\ hist.serial < MaxScheduleCommands \/ st._actions = _actions
    /\ Becomes(st)
    /\ hist' = IF st._actions = _actions THEN hist
               ELSE [hist EXCEPT !.serial = @ + 1, !.applied = Append(@, hist.serial + 1),
                                 !.undone = <<>>]
    /\ last' = op
    /\ UNCHANGED <<_date_range, _save_point, el>>

\* document.change_transactions([spawn], amount=), the user answering scope
ChangeSpawnAsking(spawn, scope) ==
    /\ is_spawn(spawn)
    /\ Answered([op |-> "change_transactions", raised |-> FALSE, discarded |-> 0,
                 scope |-> scope],
                change_transactions_asking(Now, NextAction, spawn, scope, NOEDIT,
                                           <<amount(spawn) + 15>>))

\* document.delete_transactions([spawn]), the user answering scope
DeleteSpawnAsking(spawn, scope) ==
    /\ is_spawn(spawn)
    /\ Answered([op |-> "delete_transactions", raised |-> FALSE, discarded |-> 0,
                 scope |-> scope],
                delete_transactions_asking(Now, NextAction, <<spawn>>, scope))

\* document.change_accounts([account], name=name)
RenameAccount(account, name) ==
    /\ account \in doc.accounts
    /\ Answered([op |-> "change_accounts", raised |-> FALSE, discarded |-> 0,
                 account |-> account, name |-> name],
                change_accounts_name(Now, NextAction, <<account>>, name).st)

\* document.change_group(group, name=name)
RenameGroupTo(group, name) ==
    /\ group \in doc.groups
    /\ Answered([op |-> "change_group", raised |-> FALSE, discarded |-> 0,
                 group |-> group, name |-> name],
                change_group(Now, NextAction, group, name))

NextTurnedDown ==
    \/ \E spawn \in ShownSpawns, scope \in ScheduleScope : ChangeSpawnAsking(spawn, scope)
    \/ \E spawn \in ShownSpawns, scope \in ScheduleScope : DeleteSpawnAsking(spawn, scope)
    \/ \E account \in doc.accounts, name \in {"Food", " cash "} : RenameAccount(account, name)
    \/ \E group \in doc.groups, name \in {"New group", "Renamed"} : RenameGroupTo(group, name)
    \/ Undo
    \/ Redo

SpecTurnedDown == InitTurnedDown /\ [][NextTurnedDown]_vars

\* ------------------------------------------------------------------------
\* C36: a document command cancelled at the scope prompt, and a rename of an
\* account or of a group refused because another one bears the name, records
\* no Action and changes nothing: the accounts, groups, transactions,
\* schedules and budgets, the cooked entries, the undoer's actions and cursor,
\* and what can_undo() and can_redo() answer are as before the command.
TurnedDownChangesNothing ==
    [][LET cancelled == /\ last'.op \in {"change_transactions", "delete_transactions"}
                        /\ last'.scope = "Cancel"
           account_clash == /\ last'.op = "change_accounts"
                            /\ \E other \in doc.accounts \ {last'.account} :
                                  strip(lower(doc.account[other].name))
                                     = strip(lower(last'.name))
           group_clash == /\ last'.op = "change_group"
                          /\ \E other \in doc.groups \ {last'.group} :
                                /\ doc.group[other].name = last'.name
                                /\ doc.group[other].type = doc.group[last'.group].type
       IN (cancelled \/ account_clash \/ group_clash) =>
             /\ UNCHANGED <<doc, entries, _actions, _index, _save_point>>
             /\ can_undo(_actions', _index') = can_undo(_actions, _index)
             /\ can_redo(_actions', _index') = can_redo(_actions, _index)]_vars

\* Reached: with one command applied and one undone, the change of an
\* occurrence was cancelled at the scope prompt.
CancelledWithUndoAndRedoAtHand ==
    /\ last.op = "change_transactions" /\ last.scope = "Cancel"
    /\ can_undo(_actions, _index) /\ can_redo(_actions, _index)
    /\ Len(_actions) = 2

\* ====================================================== the list re-ordered
\* How high a position the moves are followed.
MaxPosition == 4

\* How many transactions the list is given, and their dates.
MaxMoved == 4

MoveDates == {1, 2}

\* No to_transaction
NoTransaction == 0

\* TransactionList.transactions_at_date
transactions_at_date(document, date) ==
    {k \in document.transactions : document.txn[k].date = date}

move_before_without_making_room(document, from_transaction, to_transaction) ==
    LET date == document.txn[from_transaction].date
        transactions == transactions_at_date(document, date) \ {from_transaction}
    IN IF from_transaction \notin document.transactions \/ transactions = {}
          \/ to_transaction = NoTransaction
       THEN move_last(document, from_transaction)
       ELSE IF document.txn[to_transaction].date # date
       THEN move_last(document, from_transaction)
       ELSE [document EXCEPT !.txn[from_transaction].position =
                                  document.txn[to_transaction].position]

\* TransactionList.move_before
move_before(document, from_transaction, to_transaction) ==
    LET date == document.txn[from_transaction].date
        target == IF to_transaction # NoTransaction /\ document.txn[to_transaction].date # date
              THEN NoTransaction ELSE to_transaction
        transactions == transactions_at_date(document, date) \ {from_transaction}
    IN IF from_transaction \notin document.transactions \/ transactions = {} THEN document
       ELSE LET target_position ==
                    IF target = NoTransaction
                    THEN SetMax({document.txn[k].position : k \in transactions}) + 1
                    ELSE document.txn[target].position
            IN [document EXCEPT !.txn = [k \in DOMAIN @ |->
                    IF k = from_transaction THEN [@[k] EXCEPT !.position = target_position]
                    ELSE IF k \in transactions /\ @[k].position >= target_position
                         THEN [@[k] EXCEPT !.position = @ + 1]
                         ELSE @[k]]]

InitMove ==
    /\ doc = NewDocument
    /\ NewOvenAndUndoer
    /\ el = NewEntryList
    /\ last = [op |-> "init", before |-> NewDocument, a |-> 0, b |-> 0]
    /\ hist = NoHistory

Reordered(op, document, a, b) ==
    /\ \A k \in document.transactions : document.txn[k].position <= MaxPosition
    /\ doc' = document
    /\ last' = [op |-> op, before |-> doc, a |-> a, b |-> b]
    /\ UNCHANGED <<ovenVars, undoVars, el, hist>>

\* transactions.add(Transaction(date))
ListAdd(date) ==
    LET k == Cardinality(DOMAIN doc.txn) + 1
        created == [Transaction(date) EXCEPT !.key = <<1, k, NoDate>>]
    IN /\ k <= MaxMoved
       /\ Reordered("add", TransactionList_add([doc EXCEPT !.txn = DictSet(@, k, created)], k, FALSE),
                k, NoTransaction)

\* Document._change_transaction(transaction, date=date): the date set, then
\* transactions.move_last(transaction)
ChangeDate(transaction, date) ==
    /\ transaction \in doc.transactions
    /\ doc.txn[transaction].date # date
    /\ Reordered("move_last", move_last([doc EXCEPT !.txn[transaction].date = date], transaction),
             transaction, NoTransaction)

\* transactions.move_before(from_transaction, to_transaction)
MoveBefore(from_transaction, to_transaction) ==
    /\ from_transaction \in doc.transactions
    /\ to_transaction # NoTransaction => to_transaction \in doc.transactions
    /\ Reordered("move_before", move_before(doc, from_transaction, to_transaction),
             from_transaction, to_transaction)

NextMove ==
    \/ \E date \in MoveDates : ListAdd(date)
    \/ \E transaction \in 1..MaxMoved, date \in MoveDates : ChangeDate(transaction, date)
    \/ \E from_transaction \in 1..MaxMoved,
          to_transaction \in (1..MaxMoved) \cup {NoTransaction} :
          MoveBefore(from_transaction, to_transaction)

SpecMove == InitMove /\ [][NextMove]_vars

\* x comes before y in the list's order of a date
ComesBefore(document, x, y) == document.txn[x].position < document.txn[y].position

\* ------------------------------------------------------------------------
\* C37: TransactionList.move_before(a, b) with b on the date of a places a
\* right before b, keeps the order of the other transactions of the date and
\* leaves the transactions of the date with pairwise distinct positions; with
\* b None or on another date a becomes the last of its date; the transactions
\* of the other dates stay as they were.
MoveBeforePlacesRightBefore ==
    last.op = "move_before" =>
        LET a == last.a
            b == last.b
            before == last.before
            date == before.txn[a].date
            same == transactions_at_date(doc, date)
            others == same \ {a}
        IN /\ doc.transactions = before.transactions
           /\ same = transactions_at_date(before, date)
           /\ \A x, y \in same : x # y => doc.txn[x].position # doc.txn[y].position
           /\ \A x, y \in others : ComesBefore(doc, x, y) <=> ComesBefore(before, x, y)
           /\ \A k \in DOMAIN doc.txn : k \notin same => doc.txn[k] = before.txn[k]
           /\ IF b # NoTransaction /\ b \in same
              THEN IF b = a
                   THEN \A x \in others : ComesBefore(doc, x, a) <=> ComesBefore(before, x, a)
                   ELSE /\ ComesBefore(doc, a, b)
                        /\ \A x \in others : ~(ComesBefore(doc, a, x) /\ ComesBefore(doc, x, b))
              ELSE \A x \in others : ComesBefore(doc, x, a)

\* a, first of three of its date, was moved right before the last of them
MovedBetweenTwoOthers ==
    /\ last.op = "move_before" /\ last.b # NoTransaction /\ last.b # last.a
    /\ LET same == transactions_at_date(doc, doc.txn[last.a].date)
       IN /\ Cardinality(same) = 3 /\ last.b \in same
          /\ \A x \in same \ {last.a} : ComesBefore(last.before, last.a, x)
          /\ \E x \in same : ComesBefore(doc, x, last.a)
    /\ \E k \in doc.transactions : doc.txn[k].date # doc.txn[last.a].date

\* ========================================================= the split edited
\* The splits, each with the place it had before balance(): 0 for a split the
\* balancing created. It stands for the identity of the Split objects.
Indexed(splits) == [i \in DOMAIN splits |-> [split |-> splits[i], was |-> i]]

SplitsOf(items) == [i \in DOMAIN items |-> items[i].split]

\* is_unassigned of Transaction.balance, also the test of balance_currencies
is_unassigned(item, strong_split) == item.split.account = None /\ item.was # strong_split

\* The loop of Transaction.balance_currencies(strong_split) over the
\* imbalanced amounts
RECURSIVE FixEachBut(_, _, _)
FixEachBut(items, imbalanced, strong_split) ==
    IF imbalanced = <<>> THEN items
    ELSE LET amt == Head(imbalanced)
             unassigned == {i \in DOMAIN items :
                              /\ is_unassigned(items[i], strong_split)
                              /\ (IsZero(items[i].split.amount)
                                  \/ items[i].split.amount.currency = amt.currency)}
             Fixed(i) == IF Amount_eq(items[i].split.amount, amt) THEN RemoveAt(items, i)
                         ELSE [items EXCEPT ![i].split.amount = Amount_sub(@, amt)]
         IN FixEachBut(IF unassigned = {}
                       THEN Append(items, [split |-> Split(None, Amount_neg(amt)), was |-> 0])
                       ELSE Fixed(SetMin(unassigned)),
                       Tail(imbalanced), strong_split)

\* Transaction.balance_currencies(strong_split)
balance_currencies_but(items, strong_split) ==
    LET imbalanced == Imbalanced(SplitsOf(items))
        same_side == \A i, j \in DOMAIN imbalanced :
                        (imbalanced[i].value > 0) = (imbalanced[j].value > 0)
    IN IF imbalanced # <<>> /\ same_side THEN FixEachBut(items, imbalanced, strong_split)
       ELSE items

balance_adjusting_any(splits, strong_split, keep_two_splits) ==
    LET items == Indexed(splits)
        imbalance == AmountSum(AmountsOf(splits))
        unassigned == {i \in DOMAIN items : items[i].split.account = None}
        adjusted == IF unassigned # {}
                    THEN [items EXCEPT ![SetMin(unassigned)].split.amount =
                                           Amount_sub(@, imbalance)]
                    ELSE Append(items, [split |-> Split(None, Amount_neg(imbalance)), was |-> 0])
    IN IF is_mct(splits) THEN balance_currencies_but(items, 0)
       ELSE IF IsZero(imbalance) THEN items
       ELSE SelectSeq(adjusted, LAMBDA item : ~(item.split.account = None
                                                /\ IsZero(item.split.amount)))

\* Transaction.balance(strong_split, keep_two_splits), strong_split the place
\* of the split among the splits
balance_strong(splits, strong_split, keep_two_splits) ==
    LET weak_split == IF strong_split # 1 THEN 1 ELSE 2
        two == IF Len(splits) = 2
               THEN IF keep_two_splits
                    THEN [splits EXCEPT ![weak_split].amount =
                                            Amount_neg(splits[strong_split].amount)]
                    ELSE IF (splits[weak_split].amount.value > 0)
                               = (splits[strong_split].amount.value > 0)
                    THEN [splits EXCEPT ![weak_split].amount = Amount_neg(@)]
                    ELSE splits
               ELSE splits
        items == Indexed(two)
        imbalance == AmountSum(AmountsOf(two))
        unassigned == {i \in DOMAIN items : is_unassigned(items[i], strong_split)}
        adjusted == IF unassigned # {}
                    THEN [items EXCEPT ![SetMin(unassigned)].split.amount =
                                           Amount_sub(@, imbalance)]
                    ELSE Append(items, [split |-> Split(None, Amount_neg(imbalance)), was |-> 0])
    IN IF is_mct(two) THEN balance_currencies_but(items, strong_split)
       ELSE IF IsZero(imbalance) THEN items
       ELSE SelectSeq(adjusted, LAMBDA item : ~(is_unassigned(item, strong_split)
                                                /\ IsZero(item.split.amount)))

\* How many splits a transaction gets before another one is added to it
MaxSplits == 4

\* The amounts a split is given
EnteredAmounts == {Amount(2, "CAD"), Amount(-1, "CAD"), Amount(1, "USD"), Zero}

InitStrong ==
    /\ doc = NewDocument
    /\ NewOvenAndUndoer
    /\ el = NewEntryList
    /\ hist = NoHistory
    /\ \E splits \in StartingSplits :
          last = [op |-> "init", splits |-> splits, mutations |-> 0, strong_split |-> 0,
                  edited |-> <<>>, items |-> <<>>]

Balancing(op, edited, strong_split, keep_two_splits) ==
    LET items == balance_strong(edited, strong_split, keep_two_splits)
    IN /\ last.mutations < MaxMutations
       /\ last' = [op |-> op, splits |-> SplitsOf(items), mutations |-> last.mutations + 1,
                   strong_split |-> strong_split, edited |-> edited, items |-> items]
       /\ UNCHANGED <<doc, ovenVars, undoVars, el, hist>>

\* TransactionPanel.change_split(split, account_name, amount, memo) of the
\* split at place i
ChangeSplit(i, account, amt) ==
    /\ i \in DOMAIN last.splits
    /\ Balancing("change_split",
                 [last.splits EXCEPT ![i].account = account, ![i].amount = amt], i, FALSE)

\* TransactionPanel.change_split of a split made by new_split(): the split is
\* added first
ChangeNewSplit(account, amt) ==
    /\ Len(last.splits) < MaxSplits
    /\ Balancing("change_split", Append(last.splits, Split(account, amt)),
                 Len(last.splits) + 1, FALSE)

\* Document.import_entries, an imported entry matched with the split at place
\* i: ref.split.amount = entry.split.amount; ref.transaction.balance(ref.split, True)
ImportOver(i, amt) ==
    /\ i \in DOMAIN last.splits
    /\ Balancing("import_entries", [last.splits EXCEPT ![i].amount = amt], i, TRUE)

NextStrong ==
    \/ \E i \in 1..MaxSplits, account \in {None, "Food"}, amt \in EnteredAmounts :
          ChangeSplit(i, account, amt)
    \/ \E account \in {None, "Food"}, amt \in EnteredAmounts : ChangeNewSplit(account, amt)
    \/ \E i \in 1..MaxSplits, amt \in EnteredAmounts \ {Zero} : ImportOver(i, amt)

SpecStrong == InitStrong /\ [][NextStrong]_vars

\* The strong split is among the splits, once, as it was given to balance()
StrongSplitKept ==
    LET kept == {i \in DOMAIN last.items : last.items[i].was = last.strong_split}
    IN /\ Cardinality(kept) = 1
       /\ \A i \in kept : last.items[i].split = last.edited[last.strong_split]

\* The amounts of every currency sum to zero
SumToZero(splits) == Imbalanced(splits) = <<>>

\* ------------------------------------------------------------------------
\* C38: Transaction.balance(strong_split) never changes the amount of
\* strong_split and never removes it, whatever the other splits are; after the
\* call the splits sum to zero with strong_split still there with its amount.
StrongSplitKeptAndSumZero ==
    last.op # "init" => StrongSplitKept /\ SumToZero(last.splits)

\* C38 as the code has it: strong_split is kept with its amount, and the
\* splits balance: those of one currency sum to zero, those of several
\* currencies do not have all their imbalanced currencies on one side.
StrongSplitKeptAndBalanced ==
    last.op # "init" => StrongSplitKept /\ Balanced(last.splits)

\* Reached: the edited split is unassigned and the imbalance went to a new
\* unassigned split beside it
StrongUnassignedBesideNewSplit ==
    /\ last.op = "change_split"
    /\ last.edited[last.strong_split].account = None
    /\ ~IsZero(last.edited[last.strong_split].amount)
    /\ \E i \in DOMAIN last.items : last.items[i].was = 0
    /\ ~is_mct(last.splits)

\* ==================================================== the import match list
\* AccountPane.matches: rows <<ref, imported>> of entry numbers, NoRow for
\* None. The entries of the target account are numbered 1..MaxExisting, the
\* imported ones after them.
MaxExisting == 3

MaxImported == 2

NoRow == 0

MatchDates == {1, 2}

MatchAmounts == {10, 20}

Thresholds == {0, 1}

ExistingEntries == 1..MaxExisting

ImportedEntries == (MaxExisting + 1)..(MaxExisting + MaxImported)

\* The date a row is sorted by
RowDate(row, entry) == IF row[1] # NoRow THEN entry[row[1]].date ELSE entry[row[2]].date

\* AccountPane._sort_matches: list.sort, stable, by the date of the row
RECURSIVE _sort_matches(_, _)
_sort_matches(matches, entry) ==
    IF matches = <<>> THEN <<>>
    ELSE LET sorted == _sort_matches(SubSeq(matches, 1, Len(matches) - 1), entry)
             row == matches[Len(matches)]
             before == SelectSeq(sorted, LAMBDA r : RowDate(r, entry) <= RowDate(row, entry))
             after == SelectSeq(sorted, LAMBDA r : RowDate(r, entry) > RowDate(row, entry))
         IN before \o <<row>> \o after

\* AccountPane._match_entries, no entry bearing a reference: a row for each
\* entry of the target account, then one for each entry to import, sorted
_match_entries(entry) ==
    _sort_matches([i \in 1..(MaxExisting + MaxImported) |->
                      IF i \in ExistingEntries THEN <<i, NoRow>> ELSE <<NoRow, i>>], entry)

\* AccountPane.bind(existing, imported): the unpacking of a list that has not
\* exactly one row and the assertions raise
bind(matches, existing, imported) ==
    LET match1 == {i \in DOMAIN matches : matches[i][1] = existing}
        match2 == {i \in DOMAIN matches : matches[i][2] = imported}
    IN IF Cardinality(match1) # 1 \/ Cardinality(match2) # 1
       THEN [matches |-> matches, raised |-> TRUE]
       ELSE IF matches[SetMin(match1)][2] # NoRow \/ matches[SetMin(match2)][1] # NoRow
       THEN [matches |-> matches, raised |-> TRUE]
       ELSE [matches |-> RemoveAt([matches EXCEPT ![SetMin(match1)][2] = imported],
                                  SetMin(match2)),
             raised |-> FALSE]

\* AccountPane.unbind(existing, imported)
unbind(matches, existing, imported, entry) ==
    LET match == CHOOSE i \in DOMAIN matches : matches[i] = <<existing, imported>>
    IN _sort_matches(Append([matches EXCEPT ![match][2] = NoRow], <<NoRow, imported>>),
                     entry)

\* for ref in potentials: the list iterator goes by place while
\* potentials.remove(ref) shortens the list
RECURSIVE ForRefInPotentials(_, _, _, _, _, _)
ForRefInPotentials(matches, potentials, j, imported, threshold, entry) ==
    IF j > Len(potentials)
    THEN [matches |-> matches, potentials |-> potentials, raised |-> FALSE]
    ELSE LET ref == potentials[j]
         IN IF Abs(entry[ref].date - entry[imported].date) <= threshold
            THEN LET bound == bind(matches, ref, imported)
                 IN IF bound.raised
                    THEN [matches |-> matches, potentials |-> potentials, raised |-> TRUE]
                    ELSE ForRefInPotentials(bound.matches, RemoveAt(potentials, j), j + 1,
                                            imported, threshold, entry)
            ELSE ForRefInPotentials(matches, potentials, j + 1, imported, threshold, entry)

\* for entry in unmatched: the generator goes through self.matches by place
\* while bind shortens the list
RECURSIVE ForEntryInUnmatched(_, _, _, _, _)
ForEntryInUnmatched(matches, i, amount2refs, threshold, entry) ==
    IF i > Len(matches) THEN [matches |-> matches, raised |-> FALSE]
    ELSE LET imported == matches[i][2]
         IN IF matches[i][1] # NoRow \/ entry[imported].amount \notin DOMAIN amount2refs
            THEN ForEntryInUnmatched(matches, i + 1, amount2refs, threshold, entry)
            ELSE LET done == ForRefInPotentials(matches, amount2refs[entry[imported].amount],
                                                1, imported, threshold, entry)
                 IN IF done.raised THEN [matches |-> done.matches, raised |-> TRUE]
                    ELSE ForEntryInUnmatched(
                             done.matches, i + 1,
                             [amount2refs EXCEPT ![entry[imported].amount] = done.potentials],
                             threshold, entry)

\* AccountPane.match_entries_by_date_and_amount(threshold)
match_entries_by_date_and_amount(matches, threshold, entry) ==
    LET unmatched_refs == SelectSeq(matches, LAMBDA row : row[2] = NoRow)
        amounts == {entry[unmatched_refs[k][1]].amount : k \in DOMAIN unmatched_refs}
        amount2refs == [a \in amounts |->
                           LET rows == SelectSeq(unmatched_refs,
                                                 LAMBDA row : entry[row[1]].amount = a)
                           IN [k \in DOMAIN rows |-> rows[k][1]]]
        done == ForEntryInUnmatched(matches, 1, amount2refs, threshold, entry)
    IN IF done.raised THEN done
       ELSE [matches |-> _sort_matches(done.matches, entry), raised |-> FALSE]

\* The pane of an account just loaded: the entries of the target account and
\* those to import, each list in date order, matched by _match_entries.
InitMatch ==
    /\ doc = NewDocument
    /\ NewOvenAndUndoer
    /\ el = NewEntryList
    /\ hist = NoHistory
    /\ \E entry \in [ExistingEntries \cup ImportedEntries ->
                        [date : MatchDates, amount : MatchAmounts]] :
          /\ \A i, j \in ExistingEntries : i < j => entry[i].date <= entry[j].date
          /\ \A i, j \in ImportedEntries : i < j => entry[i].date <= entry[j].date
          /\ last = [op |-> "init", entry |-> entry, matches |-> _match_entries(entry),
                     raised |-> FALSE, threshold |-> 0, before |-> <<>>]

\* pane.match_entries_by_date_and_amount(threshold)
MatchEntriesByDateAndAmount(threshold) ==
    LET done == match_entries_by_date_and_amount(last.matches, threshold, last.entry)
    IN /\ ~last.raised
       /\ last' = [last EXCEPT !.op = "match_entries_by_date_and_amount",
                               !.matches = done.matches, !.raised = done.raised,
                               !.threshold = threshold, !.before = last.matches]
       /\ UNCHANGED <<doc, ovenVars, undoVars, el, hist>>

\* pane.bind(existing, imported) from the import table, both rows unbound
Bind(existing, imported) ==
    /\ ~last.raised
    /\ \E i, j \in DOMAIN last.matches :
          last.matches[i] = <<existing, NoRow>> /\ last.matches[j] = <<NoRow, imported>>
    /\ last' = [last EXCEPT !.op = "bind", !.before = last.matches,
                            !.matches = bind(last.matches, existing, imported).matches]
    /\ UNCHANGED <<doc, ovenVars, undoVars, el, hist>>

\* pane.unbind(existing, imported) of a bound row
Unbind(existing, imported) ==
    /\ ~last.raised
    /\ \E i \in DOMAIN last.matches : last.matches[i] = <<existing, imported>>
    /\ last' = [last EXCEPT !.op = "unbind", !.before = last.matches,
                            !.matches = unbind(last.matches, existing, imported, last.entry)]
    /\ UNCHANGED <<doc, ovenVars, undoVars, el, hist>>

NextMatch ==
    \/ \E threshold \in Thresholds : MatchEntriesByDateAndAmount(threshold)
    \/ \E existing \in ExistingEntries, imported \in ImportedEntries : Bind(existing, imported)
    \/ \E existing \in ExistingEntries, imported \in ImportedEntries : Unbind(existing, imported)

SpecMatch == InitMatch /\ [][NextMatch]_vars

\* ------------------------------------------------------------------------
\* C39: AccountPane.match_entries_by_date_and_amount(threshold) completes
\* without error for any lists of existing and imported entries, several
\* candidates of equal amount within the threshold included; afterwards every
\* existing and every imported entry is in exactly one row of the match list,
\* and each pair it bound has equal amounts and dates at most threshold days
\* apart.
MatchCompletesWithEveryEntryInOneRow ==
    last.op = "match_entries_by_date_and_amount" =>
        /\ ~last.raised
        /\ \A e \in ExistingEntries :
              Cardinality({i \in DOMAIN last.matches : last.matches[i][1] = e}) = 1
        /\ \A e \in ImportedEntries :
              Cardinality({i \in DOMAIN last.matches : last.matches[i][2] = e}) = 1
        /\ \A i \in DOMAIN last.matches :
              LET row == last.matches[i]
              IN (row[1] # NoRow /\ row[2] # NoRow /\ row \notin Range(last.before))
                 => /\ last.entry[row[1]].amount = last.entry[row[2]].amount
                    /\ Abs(last.entry[row[1]].date - last.entry[row[2]].date) <= last.threshold

\* ===================================================== the rates fetched
\* RatesDB with its fetch threads. The state is in last: db, the dates with a
\* rate per currency; _fetched_values, the queue; _fetched_ranges; threads,
\* what each fetch thread has still to fetch; saving, whether the calling
\* thread is inside _save_fetched_rates. hist keeps what was planned, queued
\* and written, and by whom.
RatesToday == 6

\* The days fetched in one request, 30 in the code
FetchBite == 2

\* How many times ensure_rates is called
MaxFetches == 2

\* The rate providers registered
NumProviders == 2

ProviderAnswers == {"values", "nothing", "unsupported", "unavailable"}

\* RatesDB.date_range: the first and last date with a rate, <<>> for None
RatesDB_date_range(db, currency) ==
    IF db[currency] = {} THEN <<>> ELSE <<SetMin(db[currency]), SetMax(db[currency])>>

\* The while loop of ensure_rates: the range cut in bites
RECURSIVE FetchBites(_, _, _, _)
FetchBites(currency, cur_start, cur_end, range_end) ==
    IF cur_end < range_end
    THEN LET next_end == IF cur_end + FetchBite < range_end THEN cur_end + FetchBite
                         ELSE range_end
         IN <<<<currency, cur_start, next_end>>>>
            \o FetchBites(currency, next_end, next_end, range_end)
    ELSE <<>>

\* The loop of ensure_rates over the currencies: what to fetch and the ranges
\* recorded
RECURSIVE ensure_rates(_, _, _, _)
ensure_rates(db, _fetched_ranges, start_date, currencies) ==
    IF currencies = <<>> THEN [currencies_and_range |-> <<>>, _fetched_ranges |-> _fetched_ranges]
    ELSE LET currency == Head(currencies)
             cached_range == IF currency \in DOMAIN _fetched_ranges
                             THEN _fetched_ranges[currency]
                             ELSE RatesDB_date_range(db, currency)
             range_start == IF cached_range # <<>> /\ start_date >= cached_range[1]
                            THEN cached_range[2] + 1 ELSE start_date
             range_end == IF cached_range # <<>> /\ start_date < cached_range[1]
                          THEN cached_range[1] - 1 ELSE RatesToday - 1
             rest == ensure_rates(db,
                                  IF currency = "CAD" THEN _fetched_ranges
                                  ELSE DictSet(_fetched_ranges, currency,
                                               <<start_date, RatesToday>>),
                                  start_date, Tail(currencies))
         IN IF currency = "CAD" THEN rest
            ELSE [rest EXCEPT !.currencies_and_range =
                     FetchBites(currency, range_start, range_start, range_end) \o @]

\* One turn of the loop of do(): the providers asked in their order; what is
\* put on the queue, <<>> when nothing is
RECURSIVE AskProviders(_, _, _)
AskProviders(answers, k, asked) ==
    IF k > Len(answers) THEN <<>>
    ELSE IF answers[k] = "unsupported" THEN AskProviders(answers, k + 1, asked)
    ELSE IF answers[k] = "unavailable" THEN <<>>
    ELSE <<[rates |-> IF answers[k] = "values" THEN asked[2]..asked[3] ELSE {},
            currency |-> asked[1], fetch_start |-> asked[2], fetch_end |-> asked[3]]>>

InitRates ==
    /\ doc = NewDocument
    /\ NewOvenAndUndoer
    /\ el = NewEntryList
    /\ hist = [serial |-> 0, fetches |-> 0, planned |-> {}, queued |-> {}, written |-> <<>>]
    /\ last = [op |-> "init", db |-> [c \in Currencies |-> {}], _fetched_values |-> <<>>,
               _fetched_ranges |-> EmptyDict, threads |-> <<>>, saving |-> FALSE]

\* db.ensure_rates(start_date, currencies) with async_: the ranges recorded,
\* then threading.Thread(target=do).start()
EnsureRates(start_date, currencies) ==
    LET ensured == ensure_rates(last.db, last._fetched_ranges, start_date, currencies)
    IN /\ ~last.saving
       /\ hist.fetches < MaxFetches
       /\ IF start_date >= RatesToday
          THEN last' = [last EXCEPT !.op = "ensure_rates"]
          ELSE last' = [last EXCEPT !.op = "ensure_rates",
                                    !._fetched_ranges = ensured._fetched_ranges,
                                    !.threads = Append(@, ensured.currencies_and_range)]
       /\ hist' = [hist EXCEPT !.fetches = @ + 1,
                               !.planned = IF start_date >= RatesToday THEN @
                                           ELSE @ \cup Range(ensured.currencies_and_range)]
       /\ UNCHANGED <<doc, ovenVars, undoVars, el>>

\* A fetch thread, one turn of the loop of do()
Fetch(thread, answers) ==
    LET asked == Head(last.threads[thread])
        values == AskProviders(answers, 1, asked)
        put == [i \in DOMAIN values |-> [batch |-> hist.serial + 1, values |-> values[i]]]
    IN /\ thread \in DOMAIN last.threads
       /\ last.threads[thread] # <<>>
       /\ last' = [last EXCEPT !.op = "do", !.threads[thread] = Tail(@),
                               !._fetched_values = @ \o put]
       /\ hist' = [hist EXCEPT !.serial = @ + Len(put), !.queued = @ \cup Range(put)]
       /\ UNCHANGED <<doc, ovenVars, undoVars, el>>

\* db.get_rate(date, currency1_code, currency2_code) up to the test of the
\* queue: on a queue that is not empty the caller enters _save_fetched_rates
GetRate ==
    /\ ~last.saving
    /\ last' = [last EXCEPT !.op = "get_rate", !.saving = last._fetched_values # <<>>]
    /\ UNCHANGED <<doc, ovenVars, undoVars, el, hist>>

\* _save_fetched_rates, one turn of its loop: get_nowait, then set_CAD_value
\* for each rate; on Empty the loop ends
SaveFetchedRates ==
    /\ last.saving
    /\ IF last._fetched_values = <<>>
       THEN /\ last' = [last EXCEPT !.op = "_save_fetched_rates", !.saving = FALSE]
            /\ UNCHANGED hist
       ELSE LET got == Head(last._fetched_values)
            IN /\ last' = [last EXCEPT !.op = "_save_fetched_rates",
                                       !._fetched_values = Tail(@),
                                       !.db[got.values.currency] = @ \cup got.values.rates]
               /\ hist' = [hist EXCEPT !.written =
                              Append(@, [batch |-> got.batch, by |-> "caller"])]
    /\ UNCHANGED <<doc, ovenVars, undoVars, el>>

NextRates ==
    \/ \E start_date \in 1..RatesToday, currencies \in {<<"USD">>, <<"CAD", "USD">>} :
          EnsureRates(start_date, currencies)
    \/ \E thread \in 1..MaxFetches, answers \in [1..NumProviders -> ProviderAnswers] :
          Fetch(thread, answers)
    \/ GetRate
    \/ SaveFetchedRates

SpecRates == InitRates /\ [][NextRates]_vars

\* ------------------------------------------------------------------------
\* C40: the rates fetched by the thread ensure_rates starts reach the database
\* only through the queue of fetched values and are written only by the
\* thread calling get_rate: every batch written was queued, every queued batch
\* is either still queued or was written once, and a date range is recorded
\* as fetched only when its rates were queued for saving.
FetchedRatesGoThroughTheQueue ==
    LET written == {hist.written[i].batch : i \in DOMAIN hist.written}
        waiting == {last._fetched_values[i].batch : i \in DOMAIN last._fetched_values}
        queued == {b.batch : b \in hist.queued}
    IN /\ \A i \in DOMAIN hist.written : hist.written[i].by = "caller"
       /\ \A i, j \in DOMAIN hist.written :
             hist.written[i].batch = hist.written[j].batch => i = j
       /\ written \cup waiting = queued /\ written \cap waiting = {}
       /\ \A c \in Currencies :
             last.db[c] = UNION {b.values.rates : b \in {x \in hist.queued :
                                    x.batch \in written /\ x.values.currency = c}}
       /\ \A c \in DOMAIN last._fetched_ranges :
             \A asked \in hist.planned :
                asked[1] = c => \E b \in hist.queued :
                   <<b.values.currency, b.values.fetch_start, b.values.fetch_end>> = asked

====
